---- MODULE Spec2Model ----
(***************************************************************************)
(* Model of the PSI data-collection software: the NI USB-6210 handle       *)
(* (USB6210.py), the acquisition worker (data_worker.py), the window that  *)
(* owns the worker thread (main_window.py) and the protocol side bar       *)
(* (protocol_widget.py) with its baseline calibration, threshold and       *)
(* step / standing trials.                                                 *)
(*                                                                         *)
(* Floating point values are modelled as exact rationals [k, n, d] with    *)
(* k = "num"; Python's None and numpy's nan are the two other kinds.       *)
(***************************************************************************)
EXTENDS Integers, Sequences, FiniteSets, TLC

(***************************************************************************)
(* Bounds of the model                                                     *)
(***************************************************************************)
\* most samples of one baseline capture (a capture is accepted only with a
\* peak and a valley, which takes four samples)
MaxSamples == 4
\* most samples of the quiet stance of a trial
MaxQuietSamples == 1
\* most samples of the body of a trial
MaxBodySamples == 2
\* most queued data_signal deliveries in flight to the GUI thread
MaxQueue == 1
\* most accepted baseline trials before the operator has to stop or discard
MaxBaselineTrials == 1
\* most queued slot invocations in flight to the worker thread
MaxWorkerQueue == 1
\* longest standing-trial body SpecStanding counts the stimuli of
MaxStandingSamples == 100001
\* most trials the operator saves to a file
MaxTrials == 1
\* most standing_timer objects running at once
MaxStandingTimers == 1
\* DAQ objects alive in one process (SpecDAQ)
NumHandles == 2
\* calls of the DAQ objects remembered with their outcome
MaxCalls == 2
\* the sample rate of amti_settings.json, in samples per second
SampleRate == 1
\* the samples delivered to the display lists of the two windows together
MaxPushes == 10
\* cop.py shows the last 2000 samples and keeps the last 60000 centres of
\* pressure; the two lengths are scaled down to these
LegacySamplesToShow == 2
LegacyCopLimit == 3
\* the longest quiet stance and the longest body given to create_csv_export
MaxExportRows == 2

\* mediolateral force readings (N) the modelled DAQ can deliver
FxValues == {0, 40}
\* entries of threshold_percentage_entry the model selects from
Percentages == {5, 10}

(***************************************************************************)
(* Program constants                                                       *)
(***************************************************************************)
QUIET_STANCE_DURATION == 5000
STIM_INTERVAL == 10000
STANDING_DURATION == 95000
PEAK_HEIGHT == 10
PEAK_PROMINENCE == 10
SECONDS_TO_SHOW == 5
MINIMUM_VERTICAL_FORCE == 10

(***************************************************************************)
(* Numbers                                                                 *)
(***************************************************************************)
Abs(x) == IF x < 0 THEN -x ELSE x

RECURSIVE GCD(_, _)
GCD(a, b) == IF b = 0 THEN a ELSE GCD(b, a % b)

None == [k |-> "none", n |-> 0, d |-> 1]
NaN == [k |-> "nan", n |-> 0, d |-> 1]

\* the rational n/d in lowest terms with a positive denominator
Rat(n, d) ==
    LET s == IF d < 0 THEN -1 ELSE 1
        g == GCD(Abs(n), Abs(d))
    IN  [k |-> "num", n |-> (s * n) \div g, d |-> (s * d) \div g]

IntRat(i) == [k |-> "num", n |-> i, d |-> 1]

RatAdd(a, b) == Rat(a.n * b.d + b.n * a.d, a.d * b.d)
RatSub(a, b) == Rat(a.n * b.d - b.n * a.d, a.d * b.d)
RatMulInt(a, i) == Rat(a.n * i, a.d)
RatDivInt(a, i) == Rat(a.n, a.d * i)
RatAbs(a) == [k |-> "num", n |-> Abs(a.n), d |-> a.d]
RatNeg(a) == [k |-> "num", n |-> -a.n, d |-> a.d]
RatLT(a, b) == a.n * b.d < b.n * a.d
RatLE(a, b) == a.n * b.d <= b.n * a.d

RECURSIVE SumRat(_)
SumRat(s) == IF s = <<>> THEN IntRat(0) ELSE RatAdd(Head(s), SumRat(Tail(s)))

\* numpy.mean of a list of numbers: nan for the empty list
NpMean(s) == IF s = <<>> THEN NaN ELSE RatDivInt(SumRat(s), Len(s))

\* abs(a) > abs(b) as Python evaluates it: a comparison with nan is False
AbsGreater(a, b) ==
    IF a.k = "nan" \/ b.k = "nan" THEN FALSE ELSE RatLT(RatAbs(b), RatAbs(a))

(***************************************************************************)
(* State                                                                   *)
(***************************************************************************)
VARIABLES
    \* USB6210.DAQ owned by the worker: [are_tasks, is_running]
    DAQ_device,
    \* DataWorker
    task_is_running, sampling_timer_active,
    \* the worker thread: the slot it is executing and the next line of it,
    \* the slot invocations queued to it, the state of its event loop, and
    \* whether a slot of it was aborted by an exception of the DAQ
    worker_slot, worker_pc, worker_queue, thread_state, device_error,
    \* MainWindow.closeEvent position and the ControlBar record button
    main_pc, record_checked, record_enabled,
    \* slots of the protocol widget connected to DataWorker.data_signal, and
    \* the queued deliveries [slot, Fx] posted to the GUI thread
    connected, data_queue

daqVars == <<DAQ_device>>
workerVars == <<task_is_running, sampling_timer_active, worker_slot, worker_pc,
                worker_queue, thread_state, device_error>>
windowVars == <<main_pc, record_checked, record_enabled>>
signalVars == <<connected, data_queue>>
workerPrivate == <<task_is_running, sampling_timer_active, worker_slot, worker_pc,
                   thread_state, device_error>>

VARIABLES
    \* ProtocolWidget: calibration
    baseline_data, baseline_trial_counter, threshold, threshold_percentage,
    \* ProtocolWidget: capture buffers and trial state
    incoming_data_storage, quiet_stance_data, quiet_stance_force, APA_detected,
    trial_type, stimulus_enabled, trial_counter,
    \* ProtocolWidget: preconditions
    data_is_streaming, demographics_saved, export_directory,
    \* setEnabled state of the widget's buttons and combo boxes
    enabled,
    \* pending single-shot timers: the stages of the running quiet_stance_timer
    \* objects, the stage wait_timer will connect ("none": no wait_timer), the
    \* number of running standing_timer objects
    quiet_stance_timer, wait_timer, standing_timers,
    \* the open graph dialog (window modal) and what its finished slot captured
    dialog,
    \* the body of a standing trial by its counts: len(incoming_data_storage)
    \* and the number of stimulus_signal emissions (SpecStanding)
    body_samples, body_stimuli

calibrationVars == <<baseline_data, baseline_trial_counter, threshold, threshold_percentage>>
trialVars == <<incoming_data_storage, quiet_stance_data, quiet_stance_force, APA_detected,
               trial_type, stimulus_enabled, trial_counter>>
preconditionVars == <<demographics_saved, export_directory>>
timerVars == <<quiet_stance_timer, wait_timer, standing_timers>>
countVars == <<body_samples, body_stimuli>>

VARIABLES
    \* USB6210.DAQ objects used directly, as test_USB6210.py and cop.py use
    \* them: the flags of every DAQ object, the nidaqmx tasks that exist in the
    \* process ([name, owner]) and the last calls with their outcome
    daq, hw_tasks, calls,
    \* what the operator's last answers were: the result code of the last
    \* finished signal of a graph dialog (-1: none yet), whether the last
    \* finished baseline dialog showed a peak and a valley, the name the last
    \* QFileDialog.getSaveFileName returned ("none": not asked), and the
    \* number of csv files _handle_step_trial wrote
    finished_result, finished_apa, fname, files_written,
    \* the message box the last click of start_trial_button ended with
    \* ("none": the trial was started, or no click yet)
    warning

VARIABLES
    \* plot_widget.PlotWidget: its five display lists, and the samples
    \* data_signal has delivered to it so far
    plot_widget, received,
    \* cop.PlotWidget, the window of the earlier program: its lists, and the
    \* samples read_daq has read so far
    cop_window, daq_reads,
    \* the last call of create_csv_export: its two data arguments and the list
    \* it returned
    csv

displayVars == <<plot_widget, received, cop_window, daq_reads>>
exportVars == <<csv>>
lifecycleVars == <<daq, hw_tasks, calls>>
observedVars == <<finished_result, finished_apa, fname, files_written, warning>>
protocolVars == <<calibrationVars, trialVars, preconditionVars, data_is_streaming,
                  enabled, timerVars, dialog>>

vars == <<daqVars, workerVars, windowVars, signalVars, protocolVars, countVars,
          lifecycleVars, observedVars, displayVars, exportVars>>

(***************************************************************************)
(* USB6210.DAQ: every method returns the handle after the call and whether *)
(* it raised                                                               *)
(***************************************************************************)
DAQ_init == [are_tasks |-> FALSE, is_running |-> FALSE]

\* create_tasks that raises on its second call but forgets the flags
create_tasks_resetting(dev) ==
    IF dev.are_tasks
    THEN [raised |-> TRUE, dev |-> [are_tasks |-> FALSE, is_running |-> FALSE]]
    ELSE [raised |-> FALSE, dev |-> [dev EXCEPT !.are_tasks = TRUE]]

create_tasks(dev) ==
    IF dev.are_tasks
    THEN [raised |-> TRUE, dev |-> dev]
    ELSE [raised |-> FALSE, dev |-> [dev EXCEPT !.are_tasks = TRUE]]

\* start without the test of are_tasks
start_without_tasks(dev) ==
    IF dev.is_running
    THEN [raised |-> TRUE, dev |-> dev]
    ELSE [raised |-> FALSE, dev |-> [dev EXCEPT !.is_running = TRUE]]

\* start without the test of is_running
start_again(dev) ==
    IF dev.are_tasks
    THEN [raised |-> FALSE, dev |-> [dev EXCEPT !.is_running = TRUE]]
    ELSE [raised |-> TRUE, dev |-> dev]

start(dev) ==
    IF dev.are_tasks
    THEN IF dev.is_running
         THEN [raised |-> TRUE, dev |-> dev]
         ELSE [raised |-> FALSE, dev |-> [dev EXCEPT !.is_running = TRUE]]
    ELSE [raised |-> TRUE, dev |-> dev]

\* stop without the test of is_running
stop_again(dev) ==
    IF dev.are_tasks
    THEN [raised |-> FALSE, dev |-> [dev EXCEPT !.is_running = FALSE]]
    ELSE [raised |-> TRUE, dev |-> dev]

stop(dev) ==
    IF dev.are_tasks
    THEN IF dev.is_running
         THEN [raised |-> FALSE, dev |-> [dev EXCEPT !.is_running = FALSE]]
         ELSE [raised |-> TRUE, dev |-> dev]
    ELSE [raised |-> TRUE, dev |-> dev]

\* close that forgets to reset is_running
close_keeping_running(dev) ==
    IF dev.are_tasks
    THEN [raised |-> FALSE, dev |-> [dev EXCEPT !.are_tasks = FALSE]]
    ELSE [raised |-> FALSE, dev |-> dev]

close(dev) ==
    IF dev.are_tasks
    THEN [raised |-> FALSE, dev |-> [are_tasks |-> FALSE, is_running |-> FALSE]]
    ELSE [raised |-> FALSE, dev |-> dev]

\* read without the test of is_running
read_unstarted(dev) ==
    IF ~dev.are_tasks
    THEN [raised |-> TRUE, dev |-> dev]
    ELSE [raised |-> FALSE, dev |-> dev]

\* read raises unless a task exists and runs; the sample itself is an input
read(dev) ==
    IF ~dev.are_tasks
    THEN [raised |-> TRUE, dev |-> dev]
    ELSE IF ~dev.is_running
         THEN [raised |-> TRUE, dev |-> dev]
         ELSE [raised |-> FALSE, dev |-> dev]

(***************************************************************************)
(* Construction: MainWindow.__init__ builds the protocol widget and the    *)
(* worker (whose __init__ creates the DAQ tasks) and starts the thread     *)
(***************************************************************************)
Buttons == {"start_baseline_button", "stop_baseline_button", "collect_baseline_button",
            "finish_baseline_button", "start_trial_button", "stop_trial_button",
            "trial_select_combobox", "stimulus_btns"}

NoDialog == [kind |-> "none", force |-> <<>>, peaks |-> <<>>, valleys |-> <<>>]

DataWorker_init ==
    /\ DAQ_device = create_tasks(DAQ_init).dev
    /\ task_is_running = FALSE
    /\ sampling_timer_active = FALSE
    /\ worker_slot = "none"
    /\ worker_pc = "idle"
    /\ worker_queue = <<>>
    /\ thread_state = "running"
    /\ device_error = FALSE

ProtocolWidget_init ==
    /\ baseline_data = <<>>
    /\ baseline_trial_counter = 0
    /\ threshold = None
    /\ threshold_percentage = 5
    /\ incoming_data_storage = <<>>
    /\ quiet_stance_data = <<>>
    /\ quiet_stance_force = None
    /\ APA_detected = FALSE
    /\ trial_type = "Standing Trial"
    /\ stimulus_enabled = FALSE
    /\ trial_counter = 0
    /\ data_is_streaming = FALSE
    /\ demographics_saved = FALSE
    /\ export_directory = ""
    /\ enabled = [b \in Buttons |-> b \in {"trial_select_combobox", "stimulus_btns"}]
    /\ quiet_stance_timer = {}
    /\ wait_timer = "none"
    /\ standing_timers = 0
    /\ dialog = NoDialog
    /\ body_samples = 0
    /\ body_stimuli = 0
    /\ finished_result = -1
    /\ finished_apa = FALSE
    /\ fname = "none"
    /\ files_written = 0
    /\ warning = "none"

(***************************************************************************)
(* Centre of pressure, the display lists and the export                    *)
(***************************************************************************)
\* a float that is not a number of the model: the infinities of a division
\* of a nonzero numpy.float64 by zero (n is the sign)
Inf(sign) == [k |-> "inf", n |-> sign, d |-> 1]

\* a / b of numpy.float64 for a rational a and an integer b: a division by
\* zero warns and gives nan for 0 / 0 and a signed infinity otherwise
FloatDiv(a, b) ==
    IF b = 0
    THEN IF a.n = 0 THEN NaN ELSE Inf(IF a.n < 0 THEN -1 ELSE 1)
    ELSE Rat(a.n, a.d * b)

\* (-1) * x
FloatNeg(x) == IF x.k = "nan" THEN NaN ELSE [x EXCEPT !.n = -x.n]

\* the eight channels of one read of the DAQ
Sample(fx, fy, fz, mx, my) ==
    [Fx |-> fx, Fy |-> fy, Fz |-> fz, Mx |-> mx, My |-> my, Mz |-> 3,
     EMG_1 |-> 1, EMG_2 |-> 2]

\* an unloaded platform, a load whose vertical force reads zero, one at the
\* minimum vertical force, a patient standing on the platform, a lifted plate
Samples == {Sample(0, 0, 0, 0, 0), Sample(40, 20, 0, 30, -50), Sample(40, 20, 10, 30, -50),
            Sample(40, 20, 700, 30, -50), Sample(40, 20, -20, 30, -50)}

DisplaySamples == {Sample(0, 0, 0, 0, 0), Sample(40, 20, 700, 30, -50)}

\* ZOFF of protocol_widget.py and ZOFF of plot_widget.py
ZOFF == Rat(-40934, 1000000)
plot_widget_ZOFF == Rat(-40934, 1000000)

\* calculate_center_of_pressure of protocol_widget.py with cop_x not negated
calculate_center_of_pressure_unsigned(fx, fy, fz, mx, my) ==
    [cop_x |-> FloatDiv(RatAdd(IntRat(my), RatMulInt(ZOFF, fx)), fz),
     cop_y |-> FloatDiv(RatSub(IntRat(mx), RatMulInt(ZOFF, fy)), fz)]

\* calculate_center_of_pressure of protocol_widget.py
calculate_center_of_pressure(fx, fy, fz, mx, my) ==
    [cop_x |-> FloatNeg(FloatDiv(RatAdd(IntRat(my), RatMulInt(ZOFF, fx)), fz)),
     cop_y |-> FloatDiv(RatSub(IntRat(mx), RatMulInt(ZOFF, fy)), fz)]

\* calculate_center_of_pressure of plot_widget.py
plot_widget_calculate_center_of_pressure(fx, fy, fz, mx, my) ==
    [cop_x |-> FloatNeg(FloatDiv(RatAdd(IntRat(my), RatMulInt(plot_widget_ZOFF, fx)), fz)),
     cop_y |-> FloatDiv(RatSub(IntRat(mx), RatMulInt(plot_widget_ZOFF, fy)), fz)]

\* [0 for i in range(n)]
Zeros(n) == [i \in 1..n |-> IntRat(0)]

\* lst = lst[1:]; lst.append(x) that drops the newest element instead
roll_newest(lst, x) ==
    IF lst = <<>> THEN <<x>> ELSE Append(SubSeq(lst, 1, Len(lst) - 1), x)

\* lst = lst[1:]; lst.append(x)
roll(lst, x) == IF lst = <<>> THEN <<x>> ELSE Append(Tail(lst), x)

\* lst.append(x), then lst.pop(0) when len(lst) > limit
append_limited(lst, x, limit) ==
    LET appended == Append(lst, x)
    IN  IF Len(appended) > limit THEN Tail(appended) ELSE appended

\* PlotWidget.__init__ of plot_widget.py
PlotWidget_init ==
    LET samples_to_show == SECONDS_TO_SHOW * SampleRate
    IN  /\ plot_widget = [cop_xdirection |-> Zeros(samples_to_show),
                          cop_ydirection |-> Zeros(samples_to_show),
                          force_zdirection |-> Zeros(samples_to_show),
                          emg_tibialis |-> Zeros(samples_to_show),
                          emg_soleus |-> Zeros(samples_to_show)]
        /\ received = <<>>

\* PlotWidget.__init__ of cop.py
cop_PlotWidget_init ==
    LET samples_to_show == LegacySamplesToShow
    IN  /\ cop_window = [raw |-> <<>>, copX |-> <<>>, copY |-> <<>>,
                         Fz |-> Zeros(samples_to_show),
                         emg_tib |-> Zeros(samples_to_show),
                         emg_soleus |-> Zeros(samples_to_show)]
        /\ daq_reads = <<>>

\* no call of create_csv_export yet
NoExport == [step_data |-> <<>>, quiet_stance_data |-> <<>>, export |-> <<>>]

Display_init ==
    /\ PlotWidget_init
    /\ cop_PlotWidget_init
    /\ csv = NoExport

\* the DAQ objects a test or a legacy window builds: DAQ.__init__ for each
Handles == 1..NumHandles

DAQ_objects_init ==
    /\ daq = [h \in Handles |-> DAQ_init]
    /\ hw_tasks = {}
    /\ calls = <<>>

Init ==
    /\ DataWorker_init
    /\ ProtocolWidget_init
    /\ DAQ_objects_init
    /\ Display_init
    /\ main_pc = "open"
    /\ record_checked = FALSE
    /\ record_enabled = TRUE
    /\ connected = <<>>
    /\ data_queue = <<>>

(***************************************************************************)
(* Signals of the protocol widget as the main window wires them: `connected`*)
(* lists the stages whose connect_signal is in effect, in connection order *)
(***************************************************************************)
\* the slot of the protocol widget that a stage of the protocol listens with
SlotOfStage(stage) ==
    CASE stage \in {"baseline", "quiet stance", "standing quiet stance"} -> "receive_data"
      [] stage = "step" -> "receive_step_data"
      [] stage = "standing" -> "receive_standing_trial_data"

\* connect_signal(stage): data_signal.connect(slot)
Connect(conn, stage) == Append(conn, stage)

\* disconnect_signal(stage): data_signal.disconnect(slot); deliveries that
\* are already posted to the GUI thread stay posted
Disconnect(conn, stage) == SelectSeq(conn, LAMBDA c : SlotOfStage(c) # SlotOfStage(stage))

\* stimulus_signal invokes DataWorker.ttl through the worker's event queue
EmitStimulus(queue) == Append(queue, "ttl")

\* most samples the model lets the capture of a stage hold
SampleLimit(stage) ==
    CASE stage = "baseline" -> MaxSamples
      [] stage \in {"quiet stance", "standing quiet stance"} -> MaxQuietSamples
      [] stage \in {"step", "standing"} -> MaxBodySamples

(***************************************************************************)
(* DataWorker: its slots run on the worker thread, one queued invocation   *)
(* at a time, and are followed line by line where another thread can       *)
(* observe them (closeEvent polls sampling_timer.isActive())               *)
(***************************************************************************)
WorkerIdle == worker_pc = "idle" /\ thread_state # "finished"

\* the event loop of the worker thread takes the next queued slot invocation
WorkerDispatch ==
    /\ WorkerIdle
    /\ worker_queue # <<>>
    /\ worker_slot' = Head(worker_queue)
    /\ worker_pc' = Head(worker_queue)
    /\ worker_queue' = Tail(worker_queue)
    /\ UNCHANGED <<displayVars, exportVars, countVars, lifecycleVars, observedVars, daqVars, task_is_running, sampling_timer_active, thread_state,
                   device_error, windowVars, signalVars, protocolVars>>

WorkerReturn == worker_pc' = "idle" /\ worker_slot' = "none"

\* the exception of a DAQ call ends the slot that made it
WorkerRaise == WorkerReturn /\ device_error' = TRUE

start_sampling ==
    /\ \/ /\ worker_pc = "start_sampling"
          /\ IF ~task_is_running
             THEN /\ task_is_running' = TRUE
                  /\ worker_pc' = "start_82"
                  /\ UNCHANGED worker_slot
             ELSE /\ WorkerReturn
                  /\ UNCHANGED task_is_running
          /\ UNCHANGED <<daqVars, sampling_timer_active, device_error>>
       \/ /\ worker_pc = "start_82"
          /\ IF start(DAQ_device).raised
             THEN /\ WorkerRaise
                  /\ UNCHANGED DAQ_device
             ELSE /\ DAQ_device' = start(DAQ_device).dev
                  /\ worker_pc' = "start_83"
                  /\ UNCHANGED <<worker_slot, device_error>>
          /\ UNCHANGED <<task_is_running, sampling_timer_active>>
       \/ /\ worker_pc = "start_83"
          /\ sampling_timer_active' = TRUE
          /\ WorkerReturn
          /\ UNCHANGED <<daqVars, task_is_running, device_error>>
    /\ UNCHANGED <<displayVars, exportVars, countVars, lifecycleVars, observedVars, worker_queue, thread_state, windowVars, signalVars, protocolVars>>

\* stop_sampling, also when shutdown calls it: it returns to line 103 then
stop_sampling ==
    /\ \/ /\ worker_pc = "stop_sampling"
          /\ IF task_is_running
             THEN worker_pc' = "stop_89" /\ UNCHANGED worker_slot
             ELSE IF worker_slot = "shutdown"
                  THEN worker_pc' = "shutdown_103" /\ UNCHANGED worker_slot
                  ELSE WorkerReturn
          /\ UNCHANGED <<daqVars, task_is_running, sampling_timer_active, device_error>>
       \/ /\ worker_pc = "stop_89"
          /\ IF stop(DAQ_device).raised
             THEN /\ WorkerRaise
                  /\ UNCHANGED DAQ_device
             ELSE /\ DAQ_device' = stop(DAQ_device).dev
                  /\ worker_pc' = "stop_90"
                  /\ UNCHANGED <<worker_slot, device_error>>
          /\ UNCHANGED <<task_is_running, sampling_timer_active>>
       \/ /\ worker_pc = "stop_90"
          /\ sampling_timer_active' = FALSE
          /\ worker_pc' = "stop_91"
          /\ UNCHANGED <<daqVars, task_is_running, worker_slot, device_error>>
       \/ /\ worker_pc = "stop_91"
          /\ task_is_running' = FALSE
          /\ IF worker_slot = "shutdown"
             THEN worker_pc' = "shutdown_103" /\ UNCHANGED worker_slot
             ELSE WorkerReturn
          /\ UNCHANGED <<daqVars, sampling_timer_active, device_error>>
    /\ UNCHANGED <<displayVars, exportVars, countVars, lifecycleVars, observedVars, worker_queue, thread_state, windowVars, signalVars, protocolVars>>

shutdown ==
    /\ \/ /\ worker_pc = "shutdown"
          /\ worker_pc' = IF task_is_running THEN "stop_sampling" ELSE "shutdown_103"
          /\ UNCHANGED <<daqVars, worker_slot>>
       \/ /\ worker_pc = "shutdown_103"
          /\ DAQ_device' = close(DAQ_device).dev
          /\ WorkerReturn
    /\ UNCHANGED <<displayVars, exportVars, countVars, lifecycleVars, observedVars, task_is_running, sampling_timer_active, worker_queue, thread_state,
                   device_error, windowVars, signalVars, protocolVars>>

\* DataWorker.ttl: one pulse on the counter task, the thread waits for its end
ttl ==
    /\ worker_pc = "ttl"
    /\ WorkerReturn
    /\ UNCHANGED <<displayVars, exportVars, countVars, lifecycleVars, observedVars, daqVars, task_is_running, sampling_timer_active, worker_queue,
                   thread_state, device_error, windowVars, signalVars, protocolVars>>

\* what data_signal.emit posts: one delivery per connected slot
Posted(fx) == [i \in 1..Len(connected) |-> [slot |-> SlotOfStage(connected[i]), Fx |-> fx]]

\* timeout of sampling_timer: read one sample and emit data_signal
get_data_from_daq ==
    /\ WorkerIdle
    /\ sampling_timer_active
    /\ IF read(DAQ_device).raised
       THEN /\ device_error' = TRUE
            /\ UNCHANGED data_queue
       ELSE /\ Len(data_queue) + Len(connected) <= MaxQueue
            /\ \A i \in 1..Len(connected) :
                  Len(incoming_data_storage) + Len(data_queue) + Len(connected)
                     <= SampleLimit(connected[i])
            /\ Len(data_queue) + Len(connected) + Len(worker_queue) <= MaxWorkerQueue
            /\ \E fx \in FxValues : data_queue' = data_queue \o Posted(fx)
            /\ UNCHANGED device_error
    /\ UNCHANGED <<displayVars, exportVars, countVars, lifecycleVars, observedVars, daqVars, task_is_running, sampling_timer_active, worker_slot, worker_pc,
                   worker_queue, thread_state, windowVars, connected, protocolVars>>

\* QThread.quit takes effect when control returns to the event loop
ThreadFinish ==
    /\ thread_state = "quit"
    /\ worker_pc = "idle"
    /\ thread_state' = "finished"
    /\ UNCHANGED <<displayVars, exportVars, countVars, lifecycleVars, observedVars, daqVars, task_is_running, sampling_timer_active, worker_slot, worker_pc,
                   worker_queue, device_error, windowVars, signalVars, protocolVars>>

(***************************************************************************)
(* MainWindow and ControlBar (GUI thread)                                  *)
(***************************************************************************)
\* the GUI thread dispatches events to the main window: the window is open
\* and no window-modal graph dialog captures the operator's input
GuiOpen == main_pc = "open"
OperatorInput == GuiOpen /\ dialog.kind = "none"

toggle_baseline_buttons(check_state) ==
    /\ enabled' = [enabled EXCEPT !["start_baseline_button"] = check_state,
                                  !["stop_baseline_button"] = check_state]
    /\ data_is_streaming' = check_state

\* the record button is toggled: the protocol buttons follow it and
\* control_graphs_for_protocol starts or stops the worker
record_button_clicked ==
    /\ OperatorInput
    /\ record_enabled
    /\ Len(data_queue) + Len(connected) + Len(worker_queue) < MaxWorkerQueue
    /\ record_checked' = ~record_checked
    /\ toggle_baseline_buttons(~record_checked)
    /\ worker_queue' = Append(worker_queue,
                              IF ~record_checked THEN "start_sampling" ELSE "stop_sampling")
    /\ UNCHANGED <<displayVars, exportVars, countVars, lifecycleVars, observedVars, daqVars, task_is_running, sampling_timer_active, worker_slot, worker_pc,
                   thread_state, device_error, main_pc, record_enabled, signalVars,
                   calibrationVars, trialVars, preconditionVars, timerVars, dialog>>

start_button_clicked ==
    /\ OperatorInput
    /\ ~record_checked
    /\ Len(worker_queue) < MaxWorkerQueue
    /\ worker_queue' = Append(worker_queue, "start_sampling")
    /\ record_enabled' = FALSE
    /\ UNCHANGED <<displayVars, exportVars, countVars, lifecycleVars, observedVars, daqVars, task_is_running, sampling_timer_active, worker_slot, worker_pc,
                   thread_state, device_error, main_pc, record_checked, signalVars,
                   protocolVars>>

stop_button_clicked ==
    /\ OperatorInput
    /\ ~record_checked
    /\ Len(worker_queue) < MaxWorkerQueue
    /\ worker_queue' = Append(worker_queue, "stop_sampling")
    /\ record_enabled' = TRUE
    /\ UNCHANGED <<displayVars, exportVars, countVars, lifecycleVars, observedVars, daqVars, task_is_running, sampling_timer_active, worker_slot, worker_pc,
                   thread_state, device_error, main_pc, record_checked, signalVars,
                   protocolVars>>

closeEvent ==
    /\ \/ /\ main_pc = "open"
          /\ dialog.kind = "none"
          /\ IF sampling_timer_active
             THEN /\ worker_queue' = Append(worker_queue, "shutdown")
                  /\ main_pc' = "close_94"
             ELSE /\ main_pc' = "close_98"
                  /\ UNCHANGED worker_queue
          /\ UNCHANGED thread_state
       \/ /\ main_pc = "close_94"
          /\ ~sampling_timer_active
          /\ main_pc' = "close_98"
          /\ UNCHANGED <<worker_queue, thread_state>>
       \/ /\ main_pc = "close_98"
          /\ IF thread_state = "finished"
             THEN main_pc' = "closed" /\ UNCHANGED thread_state
             ELSE main_pc' = "close_101" /\ thread_state' = "quit"
          /\ UNCHANGED worker_queue
       \/ /\ main_pc = "close_101"
          /\ thread_state = "finished"
          /\ main_pc' = "closed"
          /\ UNCHANGED <<worker_queue, thread_state>>
    /\ UNCHANGED <<displayVars, exportVars, countVars, lifecycleVars, observedVars, daqVars, task_is_running, sampling_timer_active, worker_slot, worker_pc,
                   device_error, record_checked, record_enabled, signalVars, protocolVars>>

(***************************************************************************)
(* Pure functions of protocol_widget.py                                    *)
(***************************************************************************)
Min(a, b) == IF a < b THEN a ELSE b

\* a stored row: the raw Fx channel and the Stim flag np.append adds
Row(fx, stim) == [Fx |-> fx, Stim |-> stim]

get_mediolateral_force(data) == [i \in 1..Len(data) |-> IntRat(data[i].Fx)]

\* force_during_quiet_stance of calculate_force_delta
force_during_quiet_stance(force) ==
    LET quiet_stance == SubSeq(force, 1, Min(Len(force), QUIET_STANCE_DURATION))
    IN  NpMean(quiet_stance)

calculate_force_delta(force) ==
    [i \in 1..Len(force) |-> RatSub(force[i], force_during_quiet_stance(force))]

\* scipy.signal.find_peaks(x, height, prominence): the local maxima (the
\* middle of a flat top, never the first or last sample) that reach the
\* height and whose prominence reaches the minimum; indexes are ascending
RatMin(S) == CHOOSE m \in S : \A y \in S : RatLE(m, y)

LocalMaxima(x) ==
    { (l + r) \div 2 : <<l, r>> \in
        { lr \in (2..(Len(x) - 1)) \X (2..(Len(x) - 1)) :
            /\ lr[1] <= lr[2]
            /\ \A j \in lr[1]..lr[2] : x[j] = x[lr[1]]
            /\ RatLT(x[lr[1] - 1], x[lr[1]])
            /\ RatLT(x[lr[2] + 1], x[lr[2]]) } }

Prominence(x, p) ==
    LET higherLeft == { j \in 1..(p - 1) : RatLT(x[p], x[j]) }
        higherRight == { j \in (p + 1)..Len(x) : RatLT(x[p], x[j]) }
        lo == IF higherLeft = {} THEN 1
              ELSE (CHOOSE j \in higherLeft : \A i \in higherLeft : i <= j) + 1
        hi == IF higherRight = {} THEN Len(x)
              ELSE (CHOOSE j \in higherRight : \A i \in higherRight : j <= i) - 1
        left_min == RatMin({ x[i] : i \in lo..p })
        right_min == RatMin({ x[i] : i \in p..hi })
    IN  RatSub(x[p], IF RatLT(left_min, right_min) THEN right_min ELSE left_min)

RECURSIVE SortedSeq(_)
SortedSeq(S) ==
    IF S = {} THEN <<>>
    ELSE LET m == CHOOSE a \in S : \A b \in S : a <= b
         IN  <<m>> \o SortedSeq(S \ {m})

find_peaks(x, height, prominence) ==
    SortedSeq({ p \in LocalMaxima(x) :
                  /\ RatLE(IntRat(height), x[p])
                  /\ RatLE(IntRat(prominence), Prominence(x, p)) })

NegSeq(x) == [i \in 1..Len(x) |-> RatNeg(x[i])]

\* a BaselineGraphDialog that always keeps its "Save Trial" button
SaveButtonShown_always(peaks, valleys) == TRUE

\* BaselineGraphDialog keeps its "Save Trial" button only with peaks and valleys
SaveButtonShown(peaks, valleys) == ~(Len(peaks) = 0 \/ Len(valleys) = 0)

\* an APA that is always the first peak
max_force_during_apa_peak(corrected_mediolateral_force, peaks, valleys) ==
    corrected_mediolateral_force[peaks[1]]

\* the APA of an accepted capture: the first peak or the first valley,
\* whichever comes first
max_force_during_apa(corrected_mediolateral_force, peaks, valleys) ==
    IF peaks[1] < valleys[1]
    THEN corrected_mediolateral_force[peaks[1]]
    ELSE corrected_mediolateral_force[valleys[1]]

\* the values of the baseline dict, in insertion order
BaselineValues(data) == [i \in 1..Cardinality(DOMAIN data) |-> data[SortedSeq(DOMAIN data)[i]]]

\* _set_APA_threshold without its test of baseline_trial_counter
APA_threshold_unguarded(percentage, counter, data, old) ==
    LET mean_maximum_mediolateral_force == NpMean(BaselineValues(data))
    IN  IF mean_maximum_mediolateral_force.k = "nan" THEN NaN
        ELSE RatDivInt(RatMulInt(mean_maximum_mediolateral_force, percentage), 100)

\* _set_APA_threshold: the threshold it leaves in self.threshold
APA_threshold(percentage, counter, data, old) ==
    IF counter # 0
    THEN LET mean_maximum_mediolateral_force == NpMean(BaselineValues(data))
         IN  IF mean_maximum_mediolateral_force.k = "nan" THEN NaN
             ELSE RatDivInt(RatMulInt(mean_maximum_mediolateral_force, percentage), 100)
    ELSE old

(***************************************************************************)
(* ProtocolWidget: patient info, baseline collection, threshold            *)
(***************************************************************************)
Clicked(button) == OperatorInput /\ enabled[button]

\* QFileDialog.getExistingDirectory: a folder, or "" when cancelled
_set_directory_button_clicked ==
    /\ OperatorInput
    /\ \E directory \in {"", "dir"} : export_directory' = directory
    /\ UNCHANGED <<displayVars, exportVars, countVars, lifecycleVars, observedVars, daqVars, workerVars, windowVars, signalVars, calibrationVars, trialVars,
                   demographics_saved, data_is_streaming, enabled, timerVars, dialog>>

\* store_demographics_button is checked whenever the info is not stored;
\* the click toggles it, and storing needs both entries to be filled
_demographics_button_clicked ==
    /\ OperatorInput
    /\ \E entries_filled \in BOOLEAN :
          LET check_state == demographics_saved
              isChecked == IF check_state THEN TRUE ELSE ~entries_filled
          IN  demographics_saved' = ~isChecked
    /\ UNCHANGED <<displayVars, exportVars, countVars, lifecycleVars, observedVars, daqVars, workerVars, windowVars, signalVars, calibrationVars, trialVars,
                   export_directory, data_is_streaming, enabled, timerVars, dialog>>

_start_baseline_button_clicked ==
    /\ Clicked("start_baseline_button")
    /\ \E button \in {"Ok", "Cancel"} :
          IF demographics_saved /\ button = "Ok"
          THEN /\ record_enabled' = FALSE
               /\ enabled' = [enabled EXCEPT !["stop_baseline_button"] = TRUE,
                                             !["collect_baseline_button"] = TRUE,
                                             !["start_baseline_button"] = FALSE,
                                             !["start_trial_button"] = FALSE]
          ELSE UNCHANGED <<record_enabled, enabled>>
    /\ UNCHANGED <<displayVars, exportVars, countVars, lifecycleVars, observedVars, daqVars, workerVars, main_pc, record_checked, signalVars, calibrationVars,
                   trialVars, preconditionVars, data_is_streaming, timerVars, dialog>>

\* the answers the message box offers
StopBaselineAnswers == IF DOMAIN baseline_data # {} THEN {"Save", "Discard", "Cancel"}
                       ELSE {"Yes", "No"}

_stop_baseline_button_clicked ==
    /\ Clicked("stop_baseline_button")
    /\ \E ret \in StopBaselineAnswers :
          LET afterAnswer ==
                  IF ret = "Discard"
                  THEN [enabled EXCEPT !["start_trial_button"] = FALSE]
                  ELSE IF ret = "Save"
                       THEN [enabled EXCEPT !["start_trial_button"] = TRUE]
                       ELSE enabled
          IN  /\ IF ret = "Discard"
                 THEN /\ baseline_data' = <<>>
                      /\ baseline_trial_counter' = 0
                      /\ threshold' = None
                 ELSE /\ threshold' =
                            IF ret = "Save" /\ threshold = None
                            THEN APA_threshold(threshold_percentage, baseline_trial_counter,
                                               baseline_data, threshold)
                            ELSE threshold
                      /\ UNCHANGED <<baseline_data, baseline_trial_counter>>
              /\ IF ret \in {"Discard", "Save", "Yes"}
                 THEN /\ enabled' = [afterAnswer EXCEPT !["start_baseline_button"] = TRUE,
                                                        !["stop_baseline_button"] = FALSE,
                                                        !["collect_baseline_button"] = FALSE]
                      /\ record_enabled' = TRUE
                 ELSE /\ enabled' = afterAnswer
                      /\ UNCHANGED record_enabled
    /\ UNCHANGED <<displayVars, exportVars, countVars, lifecycleVars, observedVars, daqVars, workerVars, main_pc, record_checked, signalVars,
                   threshold_percentage, trialVars, preconditionVars, data_is_streaming,
                   timerVars, dialog>>

\* _collect_quiet_stance(stage): a new single-shot timer, then connect_signal
_collect_quiet_stance(stage) ==
    /\ quiet_stance_timer' = quiet_stance_timer \cup {stage}
    /\ connected' = Connect(connected, stage)

_collect_baseline_button_clicked ==
    /\ Clicked("collect_baseline_button")
    /\ IF demographics_saved
       THEN /\ enabled' = [enabled EXCEPT !["collect_baseline_button"] = FALSE,
                                          !["stop_baseline_button"] = FALSE]
            /\ _collect_quiet_stance("baseline")
       ELSE UNCHANGED <<enabled, quiet_stance_timer, connected>>
    /\ UNCHANGED <<displayVars, exportVars, countVars, lifecycleVars, observedVars, daqVars, workerVars, windowVars, data_queue, calibrationVars, trialVars,
                   preconditionVars, data_is_streaming, wait_timer, standing_timers, dialog>>

\* _finish_baseline_button_clicked with _show_baseline_graph: the dialog it
\* opens keeps the corrected force and the peaks of the capture as it is now
_finish_baseline_button_clicked ==
    /\ Clicked("finish_baseline_button")
    /\ connected' = Disconnect(connected, "baseline")
    /\ enabled' = [enabled EXCEPT !["collect_baseline_button"] = TRUE,
                                  !["finish_baseline_button"] = FALSE,
                                  !["stop_baseline_button"] = TRUE]
    /\ LET mediolateral_force == get_mediolateral_force(incoming_data_storage)
           corrected_mediolateral_force == calculate_force_delta(mediolateral_force)
       IN  dialog' = [kind |-> "baseline",
                      force |-> corrected_mediolateral_force,
                      peaks |-> find_peaks(corrected_mediolateral_force,
                                           PEAK_HEIGHT, PEAK_PROMINENCE),
                      valleys |-> find_peaks(NegSeq(corrected_mediolateral_force),
                                             PEAK_HEIGHT, PEAK_PROMINENCE)]
    /\ UNCHANGED <<displayVars, exportVars, countVars, lifecycleVars, observedVars, daqVars, workerVars, windowVars, data_queue, calibrationVars, trialVars,
                   preconditionVars, data_is_streaming, timerVars>>

\* `if result == 1:` of _handle_baseline_trial
BaselineAccepted_always(result) == TRUE

BaselineAccepted(result) == result = 1

\* the dialog finishes with 1 only through its "Save Trial" button.  An
\* accepted capture without a peak or without a valley would count the trial
\* and then raise IndexError at peaks[0] or valleys[0], which ends the slot
\* before anything is stored or cleared
_handle_baseline_trial ==
    /\ GuiOpen
    /\ dialog.kind = "baseline"
    /\ \E result \in {0, 1} :
          /\ result = 1 => /\ SaveButtonShown(dialog.peaks, dialog.valleys)
                           /\ baseline_trial_counter < MaxBaselineTrials
          /\ finished_result' = result
          /\ finished_apa' = ~(Len(dialog.peaks) = 0 \/ Len(dialog.valleys) = 0)
          /\ IF BaselineAccepted(result)
             THEN /\ baseline_trial_counter' = baseline_trial_counter + 1
                  /\ IF Len(dialog.peaks) = 0 \/ Len(dialog.valleys) = 0
                     THEN UNCHANGED <<baseline_data, threshold, incoming_data_storage>>
                     ELSE /\ baseline_data' =
                                [t \in DOMAIN baseline_data \cup {baseline_trial_counter'} |->
                                    IF t = baseline_trial_counter'
                                    THEN max_force_during_apa(dialog.force, dialog.peaks,
                                                              dialog.valleys)
                                    ELSE baseline_data[t]]
                          /\ threshold' = APA_threshold(threshold_percentage,
                                                        baseline_trial_counter',
                                                        baseline_data', threshold)
                          /\ incoming_data_storage' = <<>>
             ELSE /\ UNCHANGED <<baseline_data, baseline_trial_counter, threshold>>
                  /\ incoming_data_storage' = <<>>
    /\ dialog' = NoDialog
    /\ UNCHANGED <<displayVars, exportVars, countVars, lifecycleVars, fname, files_written, warning, daqVars, workerVars,
                   windowVars, signalVars, threshold_percentage,
                   quiet_stance_data, quiet_stance_force, APA_detected, trial_type,
                   stimulus_enabled, trial_counter, preconditionVars,
                   data_is_streaming, enabled, timerVars>>

\* _set_APA_threshold that stores the percentage and keeps the old threshold
_set_APA_threshold_stale ==
    /\ OperatorInput
    /\ \E percentage \in Percentages \ {threshold_percentage} :
          threshold_percentage' = percentage
    /\ UNCHANGED <<displayVars, exportVars, countVars, lifecycleVars, observedVars, daqVars, workerVars, windowVars, signalVars, baseline_data,
                   baseline_trial_counter, threshold, trialVars, preconditionVars,
                   data_is_streaming, enabled, timerVars, dialog>>

\* threshold_percentage_entry.currentTextChanged -> _set_APA_threshold
_set_APA_threshold ==
    /\ OperatorInput
    /\ \E percentage \in Percentages \ {threshold_percentage} :
          /\ threshold_percentage' = percentage
          /\ threshold' = APA_threshold(percentage, baseline_trial_counter, baseline_data,
                                        threshold)
    /\ UNCHANGED <<displayVars, exportVars, countVars, lifecycleVars, observedVars, daqVars, workerVars, windowVars, signalVars, baseline_data,
                   baseline_trial_counter, trialVars, preconditionVars, data_is_streaming,
                   enabled, timerVars, dialog>>

(***************************************************************************)
(* ProtocolWidget: trials                                                  *)
(***************************************************************************)
_set_trial_type ==
    /\ Clicked("trial_select_combobox")
    /\ \E type \in {"Standing Trial", "Step Trial"} \ {trial_type} : trial_type' = type
    /\ UNCHANGED <<displayVars, exportVars, countVars, lifecycleVars, observedVars, daqVars, workerVars, windowVars, signalVars, calibrationVars,
                   incoming_data_storage, quiet_stance_data, quiet_stance_force,
                   APA_detected, stimulus_enabled, trial_counter,
                   preconditionVars, data_is_streaming, enabled, timerVars, dialog>>

\* the radio buttons None / Test / Conditioned
_stimulus_btn_toggled ==
    /\ Clicked("stimulus_btns")
    /\ \E stimulator_setup \in {"None", "Test", "Conditioned"} :
          stimulus_enabled' = (stimulator_setup # "None")
    /\ UNCHANGED <<displayVars, exportVars, countVars, lifecycleVars, observedVars, daqVars, workerVars, windowVars, signalVars, calibrationVars,
                   incoming_data_storage, quiet_stance_data, quiet_stance_force,
                   APA_detected, trial_type, trial_counter,
                   preconditionVars, data_is_streaming, enabled, timerVars, dialog>>

\* the nested ifs of _start_trial_button_clicked that test only the stream
TrialPreconditions_streaming == data_is_streaming

\* the nested ifs of _start_trial_button_clicked
TrialPreconditions == demographics_saved /\ data_is_streaming /\ export_directory # ""

\* the warning the else branches of _start_trial_button_clicked show
TrialWarning ==
    IF demographics_saved
    THEN IF data_is_streaming
         THEN IF export_directory # "" THEN "none" ELSE "directory"
         ELSE "streaming"
    ELSE "demographics"

_start_trial_button_clicked ==
    /\ Clicked("start_trial_button")
    /\ IF TrialPreconditions
       THEN /\ warning' = "none"
            /\ enabled' = [enabled EXCEPT !["start_trial_button"] = FALSE,
                                          !["start_baseline_button"] = FALSE,
                                          !["trial_select_combobox"] = FALSE,
                                          !["stimulus_btns"] = FALSE]
            /\ record_enabled' = FALSE
            /\ _collect_quiet_stance(IF trial_type = "Step Trial" THEN "quiet stance"
                                     ELSE "standing quiet stance")
       ELSE /\ warning' = TrialWarning
            /\ UNCHANGED <<enabled, record_enabled, quiet_stance_timer, connected>>
    /\ UNCHANGED <<displayVars, exportVars, countVars, lifecycleVars, finished_result, finished_apa, fname,
                   files_written, daqVars, workerVars, main_pc, record_checked,
                   data_queue, calibrationVars,
                   incoming_data_storage, quiet_stance_data, quiet_stance_force,
                   APA_detected, trial_type, stimulus_enabled, trial_counter,
                   preconditionVars, data_is_streaming, wait_timer, standing_timers, dialog>>

\* timeout of a quiet_stance_timer: the slots connected for its stage, in
\* connection order (_calculate_quiet_stance or _standing_trial, then the
\* disconnect_signal)
QuietStanceTimeout ==
    /\ GuiOpen
    /\ \E stage \in quiet_stance_timer :
          /\ quiet_stance_timer' = quiet_stance_timer \ {stage}
          /\ IF stage = "baseline"
             THEN /\ enabled' = [enabled EXCEPT !["finish_baseline_button"] = TRUE]
                  /\ UNCHANGED <<incoming_data_storage, quiet_stance_data,
                                 quiet_stance_force, wait_timer, connected>>
             ELSE /\ quiet_stance_force' =
                        IF stage = "quiet stance"
                        THEN NpMean(get_mediolateral_force(incoming_data_storage))
                        ELSE quiet_stance_force
                  /\ quiet_stance_data' = incoming_data_storage
                  /\ incoming_data_storage' = <<>>
                  /\ wait_timer' = IF stage = "quiet stance" THEN "step" ELSE "standing"
                  /\ connected' = Disconnect(connected, stage)
                  /\ UNCHANGED enabled
    /\ UNCHANGED <<displayVars, exportVars, countVars, lifecycleVars, observedVars, daqVars, workerVars, windowVars, data_queue, calibrationVars,
                   APA_detected, trial_type, stimulus_enabled, trial_counter,
                   preconditionVars, data_is_streaming, standing_timers, dialog>>

\* timeout of the 500 ms wait_timer: the body of the trial starts
WaitTimeout ==
    /\ GuiOpen
    /\ wait_timer # "none"
    /\ wait_timer = "standing" => standing_timers < MaxStandingTimers
    /\ connected' = Connect(connected, wait_timer)
    /\ enabled' = [enabled EXCEPT !["stop_trial_button"] = TRUE]
    /\ standing_timers' = IF wait_timer = "standing" THEN standing_timers + 1
                          ELSE standing_timers
    /\ wait_timer' = "none"
    /\ UNCHANGED <<displayVars, exportVars, countVars, lifecycleVars, observedVars, daqVars, workerVars, windowVars, data_queue, calibrationVars, trialVars,
                   preconditionVars, data_is_streaming, quiet_stance_timer, dialog>>

\* the body of _stop_trial_button_clicked, with the dialog _show_step_graph opens
StopTrial ==
    /\ connected' = Disconnect(connected, IF trial_type = "Step Trial" THEN "step"
                                          ELSE "standing")
    /\ record_enabled' = TRUE
    /\ enabled' = [enabled EXCEPT !["start_trial_button"] = TRUE,
                                  !["stop_trial_button"] = FALSE,
                                  !["start_baseline_button"] = TRUE,
                                  !["trial_select_combobox"] = TRUE,
                                  !["stimulus_btns"] = TRUE]
    /\ APA_detected' = FALSE
    /\ dialog' = [NoDialog EXCEPT !.kind = "step"]

_stop_trial_button_clicked ==
    /\ Clicked("stop_trial_button")
    /\ StopTrial
    /\ UNCHANGED <<displayVars, exportVars, countVars, lifecycleVars, observedVars, daqVars, workerVars, main_pc, record_checked, data_queue, calibrationVars,
                   incoming_data_storage, quiet_stance_data, quiet_stance_force, trial_type,
                   stimulus_enabled, trial_counter, preconditionVars,
                   data_is_streaming, timerVars>>

\* timeout of a standing_timer: stop_trial_button.click(), which does
\* nothing while the button is disabled
StandingTimeout ==
    /\ GuiOpen
    /\ standing_timers > 0
    /\ standing_timers' = standing_timers - 1
    /\ IF enabled["stop_trial_button"]
       THEN StopTrial
       ELSE UNCHANGED <<connected, record_enabled, enabled, APA_detected, dialog>>
    /\ UNCHANGED <<displayVars, exportVars, countVars, lifecycleVars, observedVars, daqVars, workerVars, main_pc, record_checked, data_queue, calibrationVars,
                   incoming_data_storage, quiet_stance_data, quiet_stance_force, trial_type,
                   stimulus_enabled, trial_counter, preconditionVars,
                   data_is_streaming, quiet_stance_timer, wait_timer>>

\* _handle_step_trial: the trial counter after the dialog finished with
\* result and the file dialog returned name
trial_counter_after_accept(counter, result, name) ==
    IF result = 1 THEN counter + 1 ELSE counter

trial_counter_after(counter, result, name) ==
    IF result = 1
    THEN IF name # "" THEN counter + 1 ELSE counter
    ELSE counter

\* _handle_step_trial: the number of csv files written after it
files_after(files, result, name) ==
    IF result = 1
    THEN IF name # "" THEN files + 1 ELSE files
    ELSE files

\* _handle_step_trial that clears a buffer only inside `if result == 1:`
buffer_after_accept(buffer, result, name) == IF result = 1 THEN <<>> ELSE buffer

\* _handle_step_trial: a capture buffer after its last two lines, which every
\* path reaches
buffer_after(buffer, result, name) == <<>>

\* the step graph dialog finishes: 1 is "Save Trial", and the file dialog
\* that follows gives a file name or '' when it is cancelled
_handle_step_trial ==
    /\ GuiOpen
    /\ dialog.kind = "step"
    /\ \E result \in {0, 1} :
          \E name \in IF result = 1 THEN {"", "file"} ELSE {"none"} :
              /\ (result = 1 /\ name # "") => trial_counter < MaxTrials
              /\ finished_result' = result
              /\ fname' = name
              /\ files_written' = files_after(files_written, result, name)
              /\ trial_counter' = trial_counter_after(trial_counter, result, name)
              /\ incoming_data_storage' = buffer_after(incoming_data_storage, result, name)
              /\ quiet_stance_data' = buffer_after(quiet_stance_data, result, name)
    /\ dialog' = NoDialog
    /\ UNCHANGED <<displayVars, exportVars, countVars, lifecycleVars, finished_apa, warning, daqVars, workerVars, windowVars,
                   signalVars, calibrationVars,
                   quiet_stance_force, APA_detected, trial_type, stimulus_enabled,
                   preconditionVars, data_is_streaming, enabled, timerVars>>

(***************************************************************************)
(* ProtocolWidget: the slots data_signal is delivered to                   *)
(***************************************************************************)
\* a Stim flag that waits for a full interval before the first stimulus
StandingStim_after_interval(stored) ==
    IF stored % STIM_INTERVAL = STIM_INTERVAL - 1 THEN 1 ELSE 0

\* the Stim flag receive_standing_trial_data gives the next body sample
StandingStim(stored) == IF stored % STIM_INTERVAL = 0 THEN 1 ELSE 0

\* receive_step_data: [raised, emit, stim, latch] for a sample
StepDecision(fx) ==
    IF APA_detected = FALSE
    THEN IF quiet_stance_force.k = "none" \/ threshold.k = "none"
         THEN [raised |-> TRUE, emit |-> FALSE, stim |-> 0, latch |-> APA_detected]
         ELSE IF AbsGreater(IF quiet_stance_force.k = "nan" THEN NaN
                            ELSE RatSub(IntRat(fx), quiet_stance_force), threshold)
              THEN [raised |-> FALSE, emit |-> stimulus_enabled,
                    stim |-> IF stimulus_enabled THEN 1 ELSE 0, latch |-> TRUE]
              ELSE [raised |-> FALSE, emit |-> FALSE, stim |-> 0, latch |-> FALSE]
    ELSE [raised |-> FALSE, emit |-> FALSE, stim |-> 0, latch |-> APA_detected]

receive_data(data) ==
    /\ incoming_data_storage' = Append(incoming_data_storage, Row(data, 0))
    /\ UNCHANGED <<APA_detected, worker_queue>>

receive_step_data(data) ==
    LET decision == StepDecision(data)
    IN  /\ APA_detected' = decision.latch
        /\ IF decision.emit
           THEN worker_queue' = EmitStimulus(worker_queue)
           ELSE UNCHANGED worker_queue
        /\ incoming_data_storage' =
              IF decision.raised THEN incoming_data_storage
              ELSE Append(incoming_data_storage, Row(data, decision.stim))

receive_standing_trial_data(data) ==
    LET stim == StandingStim(Len(incoming_data_storage))
    IN  /\ IF stim = 1
           THEN worker_queue' = EmitStimulus(worker_queue)
           ELSE UNCHANGED worker_queue
        /\ incoming_data_storage' = Append(incoming_data_storage, Row(data, stim))
        /\ UNCHANGED APA_detected

\* the GUI thread delivers the oldest queued data_signal to its slot
DeliverData ==
    /\ GuiOpen
    /\ data_queue # <<>>
    /\ data_queue' = Tail(data_queue)
    /\ LET slot == Head(data_queue).slot
           data == Head(data_queue).Fx
       IN  CASE slot = "receive_data" -> receive_data(data)
             [] slot = "receive_step_data" -> receive_step_data(data)
             [] slot = "receive_standing_trial_data" -> receive_standing_trial_data(data)
    /\ UNCHANGED <<displayVars, exportVars, countVars, lifecycleVars, observedVars, daqVars, workerPrivate, windowVars, connected, calibrationVars,
                   quiet_stance_data, quiet_stance_force, trial_type, stimulus_enabled,
                   trial_counter, preconditionVars, data_is_streaming, enabled, timerVars,
                   dialog>>

\* receive_standing_trial_data on the counts of the body: the length of
\* incoming_data_storage and the number of stimulus_signal emissions
StandingBody ==
    /\ body_samples < MaxStandingSamples
    /\ body_stimuli' = body_stimuli + StandingStim(body_samples)
    /\ body_samples' = body_samples + 1
    /\ UNCHANGED <<displayVars, exportVars, lifecycleVars, observedVars, daqVars, workerVars,
                   windowVars, signalVars, protocolVars>>

(***************************************************************************)
(* USB6210.DAQ objects called directly (test_USB6210.py, cop.py): any      *)
(* method of any object in any order.  nidaqmx keeps the tasks of the      *)
(* process by name, and creating a task under a name that exists fails     *)
(***************************************************************************)
\* nidaqmx.Task(new_task_name=name) that accepts a name already in use
nidaqmx_Task_unnamed(tasks, name, owner) ==
    [raised |-> FALSE, tasks |-> tasks \cup {[name |-> name, owner |-> owner]}]

\* nidaqmx.Task(new_task_name=name)
nidaqmx_Task(tasks, name, owner) ==
    IF \E t \in tasks : t.name = name
    THEN [raised |-> TRUE, tasks |-> tasks]
    ELSE [raised |-> FALSE, tasks |-> tasks \cup {[name |-> name, owner |-> owner]}]

\* task.close() and counter.close() of the object that owns them
nidaqmx_close(tasks, owner) == { t \in tasks : t.owner # owner }

\* a call of object h is over: its outcome is remembered
Called(op, h, raised, after, tasks_after, sample) ==
    LET c == Append(calls, [op |-> op, h |-> h, raised |-> raised,
                            before |-> daq[h], after |-> after,
                            tasks_before |-> hw_tasks, tasks_after |-> tasks_after,
                            sample |-> sample])
    IN  /\ daq' = [daq EXCEPT ![h] = after]
        /\ hw_tasks' = tasks_after
        /\ calls' = IF Len(c) > MaxCalls THEN Tail(c) ELSE c
        /\ UNCHANGED <<displayVars, exportVars, countVars, observedVars, daqVars, workerVars, windowVars, signalVars,
                       protocolVars>>

\* DAQ.create_tasks: the test of are_tasks, then the Reader and the Counter
\* task; are_tasks is set once both exist
call_create_tasks ==
    \E h \in Handles :
        LET r == create_tasks(daq[h])
            reader == nidaqmx_Task(hw_tasks, "Reader", h)
            counter == nidaqmx_Task(reader.tasks, "Counter", h)
        IN  IF r.raised
            THEN Called("create_tasks", h, TRUE, r.dev, hw_tasks, {})
            ELSE IF reader.raised
                 THEN Called("create_tasks", h, TRUE, daq[h], hw_tasks, {})
                 ELSE IF counter.raised
                      THEN Called("create_tasks", h, TRUE, daq[h], reader.tasks, {})
                      ELSE Called("create_tasks", h, FALSE, r.dev, counter.tasks, {})

call_start ==
    \E h \in Handles :
        LET r == start(daq[h])
        IN  Called("start", h, r.raised, r.dev, hw_tasks, {})

call_stop ==
    \E h \in Handles :
        LET r == stop(daq[h])
        IN  Called("stop", h, r.raised, r.dev, hw_tasks, {})

call_close ==
    \E h \in Handles :
        LET r == close(daq[h])
        IN  Called("close", h, r.raised, r.dev,
                   IF daq[h].are_tasks THEN nidaqmx_close(hw_tasks, h) ELSE hw_tasks, {})

\* DAQ.read: the sample it returns is whatever the platform measures
call_read ==
    \E h \in Handles :
        LET r == read(daq[h])
        IN  IF r.raised
            THEN Called("read", h, TRUE, r.dev, hw_tasks, {})
            ELSE \E fx \in FxValues : Called("read", h, FALSE, r.dev, hw_tasks, {fx})

\* DAQ.ttl has no test of its own: without tasks there is no counter to start
call_ttl ==
    \E h \in Handles :
        Called("ttl", h, ~daq[h].are_tasks, daq[h], hw_tasks, {})

(***************************************************************************)
(* The display lists of the two windows and the export of a trial          *)
(***************************************************************************)
\* PlotWidget.process_data_from_worker of plot_widget.py, the slot of
\* data_signal
process_data_from_worker ==
    /\ Len(received) + Len(daq_reads) < MaxPushes
    /\ \E data \in DisplaySamples :
          LET cop == plot_widget_calculate_center_of_pressure(data.Fx, data.Fy, data.Fz,
                                                              data.Mx, data.My)
          IN  /\ plot_widget' =
                    [cop_xdirection |-> roll(plot_widget.cop_xdirection, cop.cop_x),
                     cop_ydirection |-> roll(plot_widget.cop_ydirection, cop.cop_y),
                     force_zdirection |-> roll(plot_widget.force_zdirection, IntRat(data.Fz)),
                     emg_tibialis |-> roll(plot_widget.emg_tibialis, IntRat(data.EMG_1)),
                     emg_soleus |-> roll(plot_widget.emg_soleus, IntRat(data.EMG_2))]
              /\ received' = Append(received, data)
    /\ UNCHANGED <<cop_window, daq_reads, exportVars, countVars, lifecycleVars, observedVars,
                   daqVars, workerVars, windowVars, signalVars, protocolVars>>

\* the centre of pressure read_daq of cop.py computes in line
cop_read_daq(data) ==
    [cop_x |-> FloatNeg(FloatDiv(RatAdd(IntRat(data.My),
                                        RatMulInt(Rat(-40934, 1000000), data.Fx)), data.Fz)),
     cop_y |-> FloatDiv(RatSub(IntRat(data.Mx),
                               RatMulInt(Rat(-40934, 1000000), data.Fy)), data.Fz)]

\* PlotWidget.read_daq of cop.py, the slot of its timer; emg_soleus takes
\* channel 6 and emg_tib channel 7
read_daq ==
    /\ Len(received) + Len(daq_reads) < MaxPushes
    /\ \E data \in DisplaySamples :
          LET cop == cop_read_daq(data)
          IN  /\ cop_window' =
                    [raw |-> append_limited(cop_window.raw, data, LegacyCopLimit),
                     copX |-> append_limited(cop_window.copX, cop.cop_x, LegacyCopLimit),
                     copY |-> append_limited(cop_window.copY, cop.cop_y, LegacyCopLimit),
                     Fz |-> roll(cop_window.Fz, IntRat(data.Fz)),
                     emg_soleus |-> roll(cop_window.emg_soleus, IntRat(data.EMG_1)),
                     emg_tib |-> roll(cop_window.emg_tib, IntRat(data.EMG_2))]
              /\ daq_reads' = Append(daq_reads, data)
    /\ UNCHANGED <<plot_widget, received, exportVars, countVars, lifecycleVars, observedVars,
                   daqVars, workerVars, windowVars, signalVars, protocolVars>>

\* the rows of create_csv_export that come before the data
MetadataRows(notes, stim_status, threshold_, threshold_percent, patient_id, patient_foot_measurement, trial_type_, stimulator_setup) ==
    << <<"Date/Time of Export:", "now">>,
       <<"Patient ID:", patient_id>>,
       <<"Foot Measurement:", patient_foot_measurement>>,
       <<"Trial Type:", trial_type_>>,
       <<"APA Threshold:", threshold_>>,
       <<"Threshold Percentage:", threshold_percent>>,
       <<"Stimulus Enabled:", stim_status>>,
       <<"Stimulator Setup:", stimulator_setup>>,
       <<"Collection Notes:", notes>>,
       <<"Fx (N)", "Fy (N)", "Fz (N)", "Mx (N/m)", "My (N/m)", "Mz (N/m)",
         "EMG_Tibialis (V)", "EMG_Soleus (V)", "CoPx (m)", "CoPy (m)", "Stim">> >>

\* new_row of create_csv_export
new_row(row) ==
    LET cop == calculate_center_of_pressure(row.Fx, row.Fy, row.Fz, row.Mx, row.My)
    IN  <<row.Fx, row.Fy, row.Fz, row.Mx, row.My, row.Mz, row.EMG_1, row.EMG_2,
          cop.cop_x, cop.cop_y, row.Stim>>

\* create_csv_export with full_trial_data = [*step_data, *quiet_stance_data]
create_csv_export_body_first(step_data, quiet_stance_data_, notes, stim_status, threshold_, threshold_percent, patient_id, patient_foot_measurement, trial_type_, stimulator_setup) ==
    LET full_trial_data == step_data \o quiet_stance_data_
    IN  MetadataRows(notes, stim_status, threshold_, threshold_percent, patient_id,
                     patient_foot_measurement, trial_type_, stimulator_setup)
        \o [i \in 1..Len(full_trial_data) |-> new_row(full_trial_data[i])]

create_csv_export(step_data, quiet_stance_data_, notes, stim_status, threshold_, threshold_percent, patient_id, patient_foot_measurement, trial_type_, stimulator_setup) ==
    LET full_trial_data == quiet_stance_data_ \o step_data
    IN  MetadataRows(notes, stim_status, threshold_, threshold_percent, patient_id,
                     patient_foot_measurement, trial_type_, stimulator_setup)
        \o [i \in 1..Len(full_trial_data) |-> new_row(full_trial_data[i])]

\* a stored row: the channels of a sample and its Stim flag
StoredRows == { [Fx |-> d.Fx, Fy |-> d.Fy, Fz |-> d.Fz, Mx |-> d.Mx, My |-> d.My, Mz |-> d.Mz,
                 EMG_1 |-> d.EMG_1, EMG_2 |-> d.EMG_2, Stim |-> IF d.Fz = 700 THEN 1 ELSE 0] :
                d \in Samples }

\* the lists of at most n rows
RowLists(n) == UNION { [1..m -> StoredRows] : m \in 0..n }

\* the call of create_csv_export _handle_step_trial makes for a trial
call_create_csv_export ==
    /\ csv = NoExport
    /\ \E quiet \in RowLists(MaxExportRows), step \in RowLists(MaxExportRows) :
          csv' = [step_data |-> step, quiet_stance_data |-> quiet,
                  export |-> create_csv_export(step, quiet, "notes", TRUE, "1.0", 5, "id",
                                               "size", "Step Trial", "Test")]
    /\ UNCHANGED <<displayVars, countVars, lifecycleVars, observedVars,
                   daqVars, workerVars, windowVars, signalVars, protocolVars>>

(***************************************************************************)
(* Specifications                                                          *)
(***************************************************************************)
\* the worker thread under the control bar and the closing window
WorkerNext ==
    \/ WorkerDispatch
    \/ start_sampling
    \/ stop_sampling
    \/ shutdown
    \/ get_data_from_daq
    \/ ThreadFinish
    \/ record_button_clicked
    \/ start_button_clicked
    \/ stop_button_clicked
    \/ closeEvent

SpecWorker == Init /\ [][WorkerNext]_vars

\* the baseline calibration of a session, from the construction of the window
CalibrationNext ==
    \/ WorkerDispatch
    \/ start_sampling
    \/ stop_sampling
    \/ get_data_from_daq
    \/ record_button_clicked
    \/ _demographics_button_clicked
    \/ _start_baseline_button_clicked
    \/ _stop_baseline_button_clicked
    \/ _collect_baseline_button_clicked
    \/ _finish_baseline_button_clicked
    \/ _handle_baseline_trial
    \/ _set_APA_threshold
    \/ QuietStanceTimeout
    \/ DeliverData

SpecCalibration == Init /\ [][CalibrationNext]_vars

\* every operation of a session with the window left open
Next ==
    \/ CalibrationNext
    \/ ttl
    \/ _set_directory_button_clicked
    \/ _set_trial_type
    \/ _stimulus_btn_toggled
    \/ _start_trial_button_clicked
    \/ WaitTimeout
    \/ _stop_trial_button_clicked
    \/ StandingTimeout
    \/ _handle_step_trial

Spec == Init /\ [][Next]_vars

\* A calibrated session: the state Spec reaches from Init when the operator
\* stores the demographics, chooses the export folder, checks the record
\* button, collects and accepts one baseline capture ([0, 40, 0, 40] or
\* [40, 0, 40, 0]) and stops the baseline collection with "Save".  The state
\* space of Spec is too large to enumerate, so the trials are explored from
\* here (TLC finds ~Calibrated violated under Spec, 21 steps from Init).
Calibrated ==
    /\ DAQ_device = [are_tasks |-> TRUE, is_running |-> TRUE]
    /\ task_is_running = TRUE
    /\ sampling_timer_active = TRUE
    /\ worker_slot = "none"
    /\ worker_pc = "idle"
    /\ worker_queue = <<>>
    /\ thread_state = "running"
    /\ device_error = FALSE
    /\ main_pc = "open"
    /\ record_checked = TRUE
    /\ record_enabled = TRUE
    /\ connected = <<>>
    /\ data_queue = <<>>
    /\ baseline_data \in {<<IntRat(20)>>, <<IntRat(-20)>>}
    /\ baseline_trial_counter = 1
    /\ threshold_percentage = 5
    /\ threshold = APA_threshold(threshold_percentage, baseline_trial_counter,
                                 baseline_data, None)
    /\ incoming_data_storage = <<>>
    /\ quiet_stance_data = <<>>
    /\ quiet_stance_force = None
    /\ APA_detected = FALSE
    /\ trial_type = "Standing Trial"
    /\ stimulus_enabled = FALSE
    /\ trial_counter = 0
    /\ data_is_streaming = TRUE
    /\ demographics_saved = TRUE
    /\ export_directory = "dir"
    /\ enabled = [b \in Buttons |-> b \in {"start_baseline_button", "start_trial_button",
                                           "trial_select_combobox", "stimulus_btns"}]
    /\ quiet_stance_timer = {}
    /\ wait_timer = "none"
    /\ standing_timers = 0
    /\ dialog = NoDialog
    /\ body_samples = 0
    /\ body_stimuli = 0
    /\ finished_result = 1
    /\ finished_apa = TRUE
    /\ fname = "none"
    /\ files_written = 0
    /\ warning = "none"
    /\ DAQ_objects_init
    /\ Display_init

\* the trials of a calibrated session: the operator's trial controls and the
\* threshold entry, the timers and the samples of the streaming worker
TrialNext ==
    \/ WorkerDispatch
    \/ ttl
    \/ get_data_from_daq
    \/ _set_APA_threshold
    \/ _set_trial_type
    \/ _stimulus_btn_toggled
    \/ _start_trial_button_clicked
    \/ QuietStanceTimeout
    \/ WaitTimeout
    \/ _stop_trial_button_clicked
    \/ StandingTimeout
    \/ _handle_step_trial
    \/ DeliverData

SpecTrial == Calibrated /\ [][TrialNext]_vars

\* the trials of a calibrated session and their review, the settings of the
\* session (threshold percentage, stimulator setup) left as they are
ReviewNext ==
    \/ WorkerDispatch
    \/ ttl
    \/ get_data_from_daq
    \/ _set_trial_type
    \/ _start_trial_button_clicked
    \/ QuietStanceTimeout
    \/ WaitTimeout
    \/ _stop_trial_button_clicked
    \/ StandingTimeout
    \/ _handle_step_trial
    \/ DeliverData

SpecReview == Calibrated /\ [][ReviewNext]_vars

\* the standing trials of a calibrated session whose operator edits the
\* patient information and chooses the export folder between them
PreconditionNext ==
    \/ WorkerDispatch
    \/ ttl
    \/ get_data_from_daq
    \/ _demographics_button_clicked
    \/ _set_directory_button_clicked
    \/ _start_trial_button_clicked
    \/ QuietStanceTimeout
    \/ WaitTimeout
    \/ _stop_trial_button_clicked
    \/ _handle_step_trial
    \/ DeliverData

SpecPreconditions == Calibrated /\ [][PreconditionNext]_vars

\* the buttons around the trials of a calibrated session: the record button,
\* the baseline buttons and the trial buttons
ControlsNext ==
    \/ WorkerDispatch
    \/ start_sampling
    \/ stop_sampling
    \/ ttl
    \/ get_data_from_daq
    \/ record_button_clicked
    \/ _start_baseline_button_clicked
    \/ _stop_baseline_button_clicked
    \/ _start_trial_button_clicked
    \/ QuietStanceTimeout
    \/ WaitTimeout
    \/ _stop_trial_button_clicked
    \/ StandingTimeout
    \/ _handle_step_trial
    \/ DeliverData

SpecControls == Calibrated /\ [][ControlsNext]_vars

\* the body of one standing trial, by its counts
SpecStanding == Init /\ [][StandingBody]_vars

\* the DAQ objects of one process under any sequence of calls; this process
\* has no MainWindow, so no worker has created tasks of its own
DAQ_process_init ==
    /\ DAQ_device = DAQ_init
    /\ task_is_running = FALSE
    /\ sampling_timer_active = FALSE
    /\ worker_slot = "none"
    /\ worker_pc = "idle"
    /\ worker_queue = <<>>
    /\ thread_state = "running"
    /\ device_error = FALSE
    /\ main_pc = "open"
    /\ record_checked = FALSE
    /\ record_enabled = TRUE
    /\ connected = <<>>
    /\ data_queue = <<>>
    /\ ProtocolWidget_init
    /\ DAQ_objects_init
    /\ Display_init

DAQNext ==
    \/ call_create_tasks
    \/ call_start
    \/ call_stop
    \/ call_close
    \/ call_read
    \/ call_ttl

SpecDAQ == DAQ_process_init /\ [][DAQNext]_vars

\* A standing trial whose body has just begun: the state SpecReview reaches
\* from Calibrated by _start_trial_button_clicked, QuietStanceTimeout and
\* WaitTimeout, after which the worker has emitted two samples that the GUI
\* thread has not delivered yet (a GUI thread that is two samples late is
\* beyond MaxQueue, so the trials with such a backlog are explored from here)
StandingBodyBacklog ==
    /\ DAQ_device = [are_tasks |-> TRUE, is_running |-> TRUE]
    /\ task_is_running = TRUE
    /\ sampling_timer_active = TRUE
    /\ worker_slot = "none"
    /\ worker_pc = "idle"
    /\ worker_queue = <<>>
    /\ thread_state = "running"
    /\ device_error = FALSE
    /\ main_pc = "open"
    /\ record_checked = TRUE
    /\ record_enabled = FALSE
    /\ connected = <<"standing">>
    /\ data_queue \in { <<d1, d2>> : d1, d2 \in
                           { [slot |-> SlotOfStage("standing"), Fx |-> fx] : fx \in FxValues } }
    /\ baseline_data \in {<<IntRat(20)>>, <<IntRat(-20)>>}
    /\ baseline_trial_counter = 1
    /\ threshold_percentage = 5
    /\ threshold = APA_threshold(threshold_percentage, baseline_trial_counter,
                                 baseline_data, None)
    /\ incoming_data_storage = <<>>
    /\ quiet_stance_data = <<>>
    /\ quiet_stance_force = None
    /\ APA_detected = FALSE
    /\ trial_type = "Standing Trial"
    /\ stimulus_enabled = FALSE
    /\ trial_counter = 0
    /\ data_is_streaming = TRUE
    /\ demographics_saved = TRUE
    /\ export_directory = "dir"
    /\ enabled = [b \in Buttons |-> b = "stop_trial_button"]
    /\ quiet_stance_timer = {}
    /\ wait_timer = "none"
    /\ standing_timers = 1
    /\ dialog = NoDialog
    /\ body_samples = 0
    /\ body_stimuli = 0
    /\ finished_result = 1
    /\ finished_apa = TRUE
    /\ fname = "none"
    /\ files_written = 0
    /\ warning = "none"
    /\ DAQ_objects_init
    /\ Display_init

SpecBacklog == StandingBodyBacklog /\ [][ReviewNext]_vars

\* the standing trials of a calibrated session whose operator never clicks
\* the stop button: every trial ends with the timeout of its standing_timer
UnattendedNext ==
    \/ WorkerDispatch
    \/ ttl
    \/ get_data_from_daq
    \/ _start_trial_button_clicked
    \/ QuietStanceTimeout
    \/ WaitTimeout
    \/ StandingTimeout
    \/ _handle_step_trial
    \/ DeliverData

SpecUnattended == Calibrated /\ [][UnattendedNext]_vars

\* the display lists of the two windows under any samples
DisplayNext ==
    \/ process_data_from_worker
    \/ read_daq

SpecDisplay == Init /\ [][DisplayNext]_vars

\* create_csv_export under any two lists of stored rows
SpecExport == Init /\ [][call_create_csv_export]_vars

(***************************************************************************)
(* Properties                                                              *)
(***************************************************************************)
\* C21: while the demographics are not saved or the export directory is not
\* set, no step starts the quiet stance of a trial; and a click of the start
\* button that ends with a warning leaves the buttons, the timers, the
\* connections, the capture buffers and the rest of the protocol as they were.
C21_StartPreconditions ==
    [][/\ (~demographics_saved \/ export_directory = "") =>
             /\ quiet_stance_timer' \subseteq quiet_stance_timer
             /\ ~enabled'["trial_select_combobox"] => ~enabled["trial_select_combobox"]
       /\ (warning' # "none" /\ warning' # warning) =>
             /\ warning' = TrialWarning
             /\ UNCHANGED <<protocolVars, signalVars, windowVars, workerVars, daqVars>>]_vars

\* C21 witness: the start button was clicked with the export directory unset
\* and then with the demographics not saved; the second click showed the
\* demographics warning and no trial is under way.
C21_Witness ==
    /\ warning = "demographics"
    /\ ~demographics_saved
    /\ export_directory = ""
    /\ enabled["start_trial_button"]
    /\ quiet_stance_timer = {}
    /\ connected = <<>>

\* a trial is under way: _start_trial_button_clicked has accepted the start
\* and no stop has run yet (only these two set trial_select_combobox)
TrialRunning == ~enabled["trial_select_combobox"]

\* the rows of a capture that are tagged Stim = 1
StimRows(data) == { i \in 1..Len(data) : data[i].Stim = 1 }

\* the queued invocations of DataWorker.ttl
PendingTtl(queue) == Cardinality({ i \in 1..Len(queue) : queue[i] = "ttl" })

\* C1: the capture of a step trial holds at most one row tagged Stim = 1,
\* whatever samples arrive after the first one that crossed the threshold.
C1_StepStimulusLatch ==
    trial_type = "Step Trial" => Cardinality(StimRows(incoming_data_storage)) <= 1

C3_CalibrationFrozen ==
    [][TrialRunning => (baseline_data' = baseline_data /\ threshold' = threshold)]_vars

\* C4: once a trial is stopped (and before the next one is started) no step
\* appends a sample to incoming_data_storage or emits stimulus_signal.
C4_NoStimulusAfterStop ==
    [][~TrialRunning =>
          /\ Len(incoming_data_storage') <= Len(incoming_data_storage)
          /\ PendingTtl(worker_queue') <= PendingTtl(worker_queue)]_vars

\* C5: the hardware task is never stopped or closed while sampling_timer is
\* active, and the worker thread finishes only with the hardware task closed.
C5_OrderedShutdown ==
    /\ sampling_timer_active => (DAQ_device.are_tasks /\ DAQ_device.is_running)
    /\ thread_state = "finished" => ~DAQ_device.are_tasks

\* C6: no step starts the quiet stance of a trial while threshold is None.
C6_TrialStartRequiresThreshold ==
    [][(quiet_stance_timer' \ quiet_stance_timer)
          \cap {"quiet stance", "standing quiet stance"} # {} => threshold # None]_vars

\* C7: threshold is None exactly when baseline_data is empty.
C7_ThresholdLifecycle == (threshold = None) <=> (DOMAIN baseline_data = {})

\* C7 witness: an accepted baseline trial with a defined threshold
C7_Witness == baseline_trial_counter = 1 /\ DOMAIN baseline_data # {} /\ threshold.k = "num"

C9_ThresholdOfMagnitudes ==
    DOMAIN baseline_data # {} =>
        threshold = RatDivInt(RatMulInt(NpMean([i \in 1..Len(BaselineValues(baseline_data)) |->
                                                    RatAbs(BaselineValues(baseline_data)[i])]),
                                        threshold_percentage), 100)

\* C10: a step that raises the percentage and leaves a non-empty
\* baseline_data as it is does not lower the threshold.
C10_MonotonicInPercentage ==
    [][(/\ DOMAIN baseline_data # {}
        /\ baseline_data' = baseline_data
        /\ threshold_percentage' >= threshold_percentage)
          => RatLE(threshold, threshold')]_vars

(***************************************************************************)
(* The DAQ object's contract (SpecDAQ)                                     *)
(***************************************************************************)
NoTasks == [are_tasks |-> FALSE, is_running |-> FALSE]
Created == [are_tasks |-> TRUE, is_running |-> FALSE]
Running == [are_tasks |-> TRUE, is_running |-> TRUE]

\* call i + 1 is a call of the object of call i
NextOnSame(i) == i < Len(calls) /\ calls[i + 1].h = calls[i].h

\* C11: create_tasks on a DAQ object that already has tasks raises and leaves
\* are_tasks, is_running and the tasks of the process as they were, and the
\* task stays usable: the next start (task not running), read or stop (task
\* running) of that object succeeds.
C11_SecondCreateFailsFast ==
    \A i \in 1..Len(calls) :
        (calls[i].op = "create_tasks" /\ calls[i].before.are_tasks) =>
            /\ calls[i].raised
            /\ calls[i].after = calls[i].before
            /\ calls[i].tasks_after = calls[i].tasks_before
            /\ (NextOnSame(i) /\ calls[i + 1].op = "start" /\ ~calls[i].before.is_running)
                   => ~calls[i + 1].raised
            /\ (NextOnSame(i) /\ calls[i + 1].op \in {"read", "stop"}
                              /\ calls[i].before.is_running)
                   => ~calls[i + 1].raised

C11_Witness ==
    /\ Len(calls) = 2
    /\ calls[1].op = "create_tasks" /\ calls[1].raised /\ calls[1].before = Created
    /\ calls[2].op = "start" /\ calls[2].h = calls[1].h /\ ~calls[2].raised
    /\ daq[calls[1].h] = Running

C13_StartContract ==
    \A i \in 1..Len(calls) :
        calls[i].op = "start" =>
            /\ ~calls[i].raised <=> calls[i].before = Created
            /\ ~calls[i].raised => calls[i].after = Running
            /\ calls[i].raised => calls[i].after = calls[i].before

C13_Witness ==
    /\ Len(calls) = 2
    /\ calls[1].op = "stop" /\ ~calls[1].raised
    /\ calls[2].op = "start" /\ calls[2].h = calls[1].h /\ ~calls[2].raised
    /\ daq[calls[2].h] = Running

\* C14: stop succeeds exactly when the object has tasks and is running, and
\* then is_running is false and are_tasks still true; otherwise it raises and
\* leaves are_tasks and is_running as they were.
C14_StopContract ==
    \A i \in 1..Len(calls) :
        calls[i].op = "stop" =>
            /\ ~calls[i].raised <=> calls[i].before = Running
            /\ ~calls[i].raised => calls[i].after = Created
            /\ calls[i].raised => calls[i].after = calls[i].before

C14_Witness ==
    /\ Len(calls) = 2
    /\ calls[1].op = "stop" /\ ~calls[1].raised /\ calls[1].after = Created
    /\ calls[2].op = "stop" /\ calls[2].h = calls[1].h /\ calls[2].raised
    /\ daq[calls[2].h] = Created

\* C15: read returns a sample exactly when the object has tasks and is
\* running; in every other state it raises and returns nothing; it never
\* changes the object or the tasks of the process.
C15_ReadContract ==
    \A i \in 1..Len(calls) :
        calls[i].op = "read" =>
            /\ ~calls[i].raised <=> calls[i].before = Running
            /\ ~calls[i].raised <=> calls[i].sample # {}
            /\ calls[i].after = calls[i].before
            /\ calls[i].tasks_after = calls[i].tasks_before

C15_Witness ==
    /\ Len(calls) = 2
    /\ calls[1].op = "read" /\ ~calls[1].raised /\ calls[1].sample = {40}
    /\ calls[2].op = "read" /\ calls[2].h # calls[1].h /\ calls[2].raised
    /\ calls[2].sample = {}

\* C16: close never raises and always leaves are_tasks and is_running false
\* and no task of the object in the process; the next start or read of the
\* object raises, and the next create_tasks of the object succeeds (no other
\* object holding the tasks of the process, see C12).
C16_CloseContract ==
    \A i \in 1..Len(calls) :
        calls[i].op = "close" =>
            /\ ~calls[i].raised
            /\ calls[i].after = NoTasks
            /\ \A t \in calls[i].tasks_after : t.owner # calls[i].h
            /\ (NextOnSame(i) /\ calls[i + 1].op \in {"start", "read"})
                   => calls[i + 1].raised
            /\ (NextOnSame(i) /\ calls[i + 1].op = "create_tasks"
                              /\ calls[i + 1].tasks_before = {})
                   => (~calls[i + 1].raised /\ calls[i + 1].after = Created)

C16_Witness ==
    /\ Len(calls) = 2
    /\ calls[1].op = "close" /\ calls[1].before = Running
    /\ calls[2].op = "create_tasks" /\ calls[2].h = calls[1].h /\ ~calls[2].raised
    /\ daq[calls[2].h] = Created

(***************************************************************************)
(* Review of a baseline capture (SpecCalibration) and of a trial (SpecTrial)*)
(***************************************************************************)
\* the step is the finished signal of the open baseline dialog
BaselineFinished == dialog.kind = "baseline" /\ dialog' = NoDialog

\* the step is the finished signal of the open step dialog
StepFinished == dialog.kind = "step" /\ dialog' = NoDialog

\* C17: while the review dialog of a baseline capture without a peak or
\* without a valley is open, and when it is closed, no step changes
\* baseline_data, baseline_trial_counter or threshold, and the dialog never
\* finishes with result 1.
C17_NoAPANeverAccepted ==
    [][(dialog.kind = "baseline" /\ (Len(dialog.peaks) = 0 \/ Len(dialog.valleys) = 0)) =>
            /\ baseline_data' = baseline_data
            /\ baseline_trial_counter' = baseline_trial_counter
            /\ threshold' = threshold
            /\ BaselineFinished => finished_result' # 1]_vars

C17_Witness ==
    /\ dialog = NoDialog
    /\ finished_result = 0
    /\ ~finished_apa
    /\ baseline_trial_counter = 1
    /\ threshold = RatDivInt(RatMulInt(baseline_data[1], threshold_percentage), 100)

\* C18: an accepted baseline capture stores the corrected force at its first
\* peak when the first peak has the lower sample index, and the corrected
\* force at its first valley otherwise.
C18_APAMagnitude ==
    [][(BaselineFinished /\ finished_result' = 1
            /\ Len(dialog.peaks) > 0 /\ Len(dialog.valleys) > 0) =>
            /\ baseline_trial_counter' = baseline_trial_counter + 1
            /\ baseline_data'[baseline_trial_counter'] =
                  IF dialog.peaks[1] < dialog.valleys[1]
                  THEN dialog.force[dialog.peaks[1]]
                  ELSE dialog.force[dialog.valleys[1]]]_vars

C18_Witness ==
    /\ dialog = NoDialog
    /\ finished_result = 1
    /\ finished_apa
    /\ baseline_trial_counter = 1
    /\ baseline_data[1] = IntRat(-20)

\* C19: when the operator rejects a baseline capture, baseline_data,
\* baseline_trial_counter, threshold and threshold_percentage keep their
\* values (and so do the buttons and the trial counter); the sample buffer
\* of the capture is cleared.
C19_RejectLeavesCalibration ==
    [][(BaselineFinished /\ finished_result' # 1) =>
            /\ baseline_data' = baseline_data
            /\ baseline_trial_counter' = baseline_trial_counter
            /\ threshold' = threshold
            /\ threshold_percentage' = threshold_percentage
            /\ enabled' = enabled
            /\ trial_counter' = trial_counter
            /\ incoming_data_storage' = <<>>]_vars

C19_Witness ==
    /\ dialog = NoDialog
    /\ finished_result = 0
    /\ finished_apa
    /\ incoming_data_storage = <<>>
    /\ baseline_trial_counter = 1
    /\ threshold.k = "num"

\* C20 as stated: a trial accepted in its review dialog (result 1) is
\* exported and counted, a discarded one is not.
C20_AcceptedIsExported ==
    [][StepFinished =>
            IF finished_result' = 1
            THEN /\ files_written' = files_written + 1
                 /\ trial_counter' = trial_counter + 1
            ELSE /\ files_written' = files_written
                 /\ trial_counter' = trial_counter]_vars

\* C20: trial_counter always equals the number of csv files written; a trial
\* is exported and counted (by exactly one) when it is accepted in the review
\* dialog and a file name is given in the file dialog that follows; when it
\* is discarded, or accepted and the file dialog cancelled, no file is
\* written and trial_counter keeps its value.
C20_CounterMatchesFiles ==
    /\ [](trial_counter = files_written)
    /\ [][StepFinished =>
            IF finished_result' = 1 /\ fname' # ""
            THEN /\ files_written' = files_written + 1
                 /\ trial_counter' = trial_counter + 1
            ELSE /\ files_written' = files_written
                 /\ trial_counter' = trial_counter]_vars

C20_Witness ==
    /\ dialog = NoDialog
    /\ finished_result = 1
    /\ fname = ""
    /\ trial_counter = 1
    /\ files_written = 1

\* C22: whenever a trial is under way (its quiet stance is being collected,
\* the gap before the body, the body, the APA latched) the stop button takes
\* a click of the operator.
C22_StopAvailable == TrialRunning => enabled["stop_trial_button"]

\* the value the specification names Invalid
Invalid == [k |-> "invalid", n |-> 0, d |-> 1]

\* the indexes of the data rows of an export
DataRowIndexes(export) == 11..Len(export)

\* C23: every exported row whose vertical force is at most
\* MINIMUM_VERTICAL_FORCE carries Invalid in its two centre of pressure
\* columns (no division was made for it).
C23_CoPGuard ==
    \A i \in DataRowIndexes(csv.export) :
        csv.export[i][3] <= MINIMUM_VERTICAL_FORCE =>
            (csv.export[i][9] = Invalid /\ csv.export[i][10] = Invalid)

\* C24: in every exported row whose vertical force is above the minimum the
\* columns CoPx and CoPy are -(My + zOffset * Fx) / Fz and
\* (Mx - zOffset * Fy) / Fz of the row's own raw columns with zOffset =
\* -0.040934, and the function of the live display gives the same two values
\* for these raw columns, as does the one of the export applied to them again.
C24_CoPOneFunction ==
    \A i \in DataRowIndexes(csv.export) :
        LET r == csv.export[i]
        IN  r[3] > MINIMUM_VERTICAL_FORCE =>
               /\ r[9] = Rat(-(1000000 * r[5] - 40934 * r[1]), 1000000 * r[3])
               /\ r[10] = Rat(1000000 * r[4] + 40934 * r[2], 1000000 * r[3])
               /\ plot_widget_calculate_center_of_pressure(r[1], r[2], r[3], r[4], r[5])
                     = [cop_x |-> r[9], cop_y |-> r[10]]
               /\ calculate_center_of_pressure(r[1], r[2], r[3], r[4], r[5])
                     = [cop_x |-> r[9], cop_y |-> r[10]]

\* C24 witness: an export whose first data row is the sample of a standing
\* patient (Fx 40, Fy 20, Fz 700, Mx 30, My -50): CoPx is 51.63736 / 700 and
\* CoPy 30.81868 / 700.
C24_Witness ==
    /\ Len(csv.export) >= 11
    /\ csv.export[11][3] = 700
    /\ csv.export[11][9] = Rat(51637360, 700000000)
    /\ csv.export[11][10] = Rat(30818680, 700000000)

\* the last n elements of a list (all of it when it is shorter)
LastN(lst, n) == IF Len(lst) <= n THEN lst ELSE SubSeq(lst, Len(lst) - n + 1, Len(lst))

\* the values a window pushed onto one of its lists, in arrival order
Pushed(samples, Value(_)) == [i \in 1..Len(samples) |-> Value(samples[i])]

MetadataLabels ==
    <<"Date/Time of Export:", "Patient ID:", "Foot Measurement:", "Trial Type:",
      "APA Threshold:", "Threshold Percentage:", "Stimulus Enabled:", "Stimulator Setup:",
      "Collection Notes:">>

\* the header row of an export
HeaderRow ==
    <<"Fx (N)", "Fy (N)", "Fz (N)", "Mx (N/m)", "My (N/m)", "Mz (N/m)",
      "EMG_Tibialis (V)", "EMG_Soleus (V)", "CoPx (m)", "CoPy (m)", "Stim">>

\* an exported row carries the channels and the Stim flag of a stored row
Carries(exported, row) ==
    /\ Len(exported) = 11
    /\ <<exported[1], exported[2], exported[3], exported[4], exported[5], exported[6],
         exported[7], exported[8], exported[11]>>
          = <<row.Fx, row.Fy, row.Fz, row.Mx, row.My, row.Mz, row.EMG_1, row.EMG_2, row.Stim>>

\* C26: the list create_csv_export returns starts with the nine metadata rows
\* in their order and the header row, and goes on with one row for every row
\* of quiet_stance_data, in order, and then one for every row of step_data, in
\* order, each with the raw channels and the Stim flag of its row.
C26_ExportRowOrder ==
    LET export == csv.export
        quiet == csv.quiet_stance_data
        step == csv.step_data
    IN  csv # NoExport =>
           /\ Len(export) = 10 + Len(quiet) + Len(step)
           /\ \A i \in 1..9 : Len(export[i]) = 2 /\ export[i][1] = MetadataLabels[i]
           /\ export[10] = HeaderRow
           /\ \A i \in 1..Len(quiet) : Carries(export[10 + i], quiet[i])
           /\ \A i \in 1..Len(step) : Carries(export[10 + Len(quiet) + i], step[i])

\* C26 witness: the export of a quiet stance of two rows (no vertical force,
\* then the minimum vertical force) and a body of two rows (a standing
\* patient with Stim 1, then a lifted plate): rows 11 to 14 are these four.
C26_Witness ==
    /\ Len(csv.quiet_stance_data) = 2
    /\ Len(csv.step_data) = 2
    /\ Len(csv.export) = 14
    /\ <<csv.export[11][3], csv.export[12][3], csv.export[13][3], csv.export[14][3]>>
          = <<0, 10, 700, -20>>
    /\ csv.export[13][11] = 1

\* C27: when the quiet-stance window of a trial has closed, the samples of the
\* window are quiet_stance_data, all of them: during the gap that follows, no
\* sample of the window is in (or still arrives in) the capture buffer, where
\* it would count as a sample of the body.
C27_QuietStanceWindow ==
    (TrialRunning /\ wait_timer # "none") => incoming_data_storage = <<>>

\* C28: the mean a baseline capture is corrected with is the mean of the
\* samples received before the quiet_stance_timer expired: once the timer has
\* expired (the finish button is enabled) and the window held a sample, a
\* sample of the step window that arrives leaves that mean as it was.
C28_BaselineReference ==
    [][(/\ enabled["finish_baseline_button"]
        /\ incoming_data_storage # <<>>
        /\ Len(incoming_data_storage') > Len(incoming_data_storage)) =>
          force_during_quiet_stance(get_mediolateral_force(incoming_data_storage'))
             = force_during_quiet_stance(get_mediolateral_force(incoming_data_storage))]_vars

\* C29: while the worker is generating a pulse (DataWorker.ttl has not
\* returned) no further request for a pulse is waiting in the queue of the
\* worker: a request made during a pulse is refused, not queued.
C29_PulseNotQueued == worker_pc = "ttl" => PendingTtl(worker_queue) = 0

\* C30: once the standing_timer of a standing trial has ended the trial (no
\* standing_timer is left and no trial is under way), no step emits
\* stimulus_signal until the next trial is started.
C30_NoStimulusAfterAutoCompletion ==
    [][(trial_type = "Standing Trial" /\ ~TrialRunning /\ standing_timers = 0) =>
          PendingTtl(worker_queue') <= PendingTtl(worker_queue)]_vars

\* the GUI thread delivers the oldest queued sample to the slot in this step
Delivers(slot) ==
    /\ data_queue # <<>>
    /\ Head(data_queue).slot = slot
    /\ data_queue' = Tail(data_queue)
    /\ incoming_data_storage' # incoming_data_storage

\* |Fx - quiet stance force| > |threshold| for the mediolateral force fx
Crosses(fx) ==
    IF quiet_stance_force.k # "num" \/ threshold.k # "num" THEN FALSE
    ELSE RatLT(RatAbs(threshold), RatAbs(RatSub(IntRat(fx), quiet_stance_force)))

\* fx is the first sample of the body that crosses the threshold
FirstCrossing(fx) ==
    /\ Crosses(fx)
    /\ \A i \in 1..Len(incoming_data_storage) : ~Crosses(incoming_data_storage[i].Fx)

\* C31: a body sample of a step trial emits stimulus_signal exactly when it is
\* the first body sample that crosses the threshold and the stimulus is
\* enabled; its stored row has Stim = 1 exactly when the stimulus was emitted;
\* with the stimulus disabled the first crossing sets the latch only.
C31_StepTriggerAndTag ==
    [][Delivers("receive_step_data") =>
          LET fx == Head(data_queue).Fx
              emitted == PendingTtl(worker_queue') > PendingTtl(worker_queue)
              row == incoming_data_storage'[Len(incoming_data_storage')]
          IN  /\ emitted <=> (FirstCrossing(fx) /\ stimulus_enabled)
              /\ row.Stim = 1 <=> emitted
              /\ (FirstCrossing(fx) /\ ~stimulus_enabled) => APA_detected']_vars

\* C32: a body sample of a standing trial emits stimulus_signal and is stored
\* with Stim = 1 exactly when the number of body samples already stored is a
\* multiple of STIM_INTERVAL, whatever the force, the threshold and the
\* stimulator setup are.  The number of body samples already stored is the
\* length of incoming_data_storage, which holds nothing but body samples: once
\* the quiet stance of the trial is over, receive_data appends nothing to it.
C32_StandingPeriodicStimulus ==
    [][/\ Delivers("receive_standing_trial_data") =>
             LET emitted == PendingTtl(worker_queue') > PendingTtl(worker_queue)
                 row == incoming_data_storage'[Len(incoming_data_storage')]
             IN  /\ emitted <=> Len(incoming_data_storage) % STIM_INTERVAL = 0
                 /\ row.Stim = (IF emitted THEN 1 ELSE 0)
       /\ (Delivers("receive_data") /\ trial_type = "Standing Trial" /\ TrialRunning) =>
             "standing quiet stance" \in quiet_stance_timer]_vars

\* sample rates (Hz) amti_settings.json can give the worker and the DAQ
SampleRates == {10, 1000}

\* the samples the DAQ, clocked at rate r, delivers in ms milliseconds
SamplesIn(ms, r) == (ms * r) \div 1000

\* C33: when the standing_timer of a standing trial stops it, STANDING_DURATION
\* milliseconds after its body began, the body has fired exactly 10 stimuli,
\* whatever sample rate the settings file configures.
C33_TenStimuli ==
    \A r \in SampleRates :
        body_samples = SamplesIn(STANDING_DURATION, r) => body_stimuli = 10

\* C34: once MainWindow.closeEvent has returned, the worker thread has
\* finished and the DAQ tasks are stopped and closed, whether or not the
\* worker was sampling when the window was closed.
C34_CloseShutsDown ==
    main_pc = "closed" =>
        /\ thread_state = "finished"
        /\ ~DAQ_device.are_tasks
        /\ ~DAQ_device.is_running

\* C35: the timeout of a standing_timer stops no trial but the standing trial
\* that started it; a step trial, which starts no standing_timer, is never
\* stopped by one.
C35_StaleTimerStopsNothing ==
    [][(standing_timers' < standing_timers /\ TrialRunning /\ ~TrialRunning') =>
          trial_type = "Standing Trial"]_vars

\* the record button, the baseline buttons and the trial buttons of a
\* calibrated session, with the captures they start
CaptureNext ==
    \/ WorkerDispatch
    \/ start_sampling
    \/ stop_sampling
    \/ get_data_from_daq
    \/ record_button_clicked
    \/ _start_baseline_button_clicked
    \/ _stop_baseline_button_clicked
    \/ _collect_baseline_button_clicked
    \/ _start_trial_button_clicked
    \/ QuietStanceTimeout
    \/ WaitTimeout
    \/ _stop_trial_button_clicked
    \/ _handle_step_trial
    \/ DeliverData

SpecCapture == Calibrated /\ [][CaptureNext]_vars

\* a baseline capture is in progress: collect_baseline_button connected the
\* baseline stage and finish_baseline_button has not disconnected it yet
BaselineCapturing == \E i \in 1..Len(connected) : connected[i] = "baseline"

\* C36: a baseline capture and a trial are never in progress at the same time.
C36_SingleWriter == ~(BaselineCapturing /\ TrialRunning)

\* C37: when the body of a step trial is connected (the timeout of its
\* wait_timer), APA_detected is False, whatever trials came before.
C37_LatchClearAtStart ==
    [][(wait_timer = "step" /\ wait_timer' = "none") => ~APA_detected']_vars

call_worker_slot ==
    /\ Len(worker_queue) < MaxWorkerQueue
    /\ \E slot \in {"start_sampling", "stop_sampling", "shutdown"} :
          worker_queue' = Append(worker_queue, slot)
    /\ UNCHANGED <<displayVars, exportVars, countVars, lifecycleVars, observedVars, daqVars,
                   workerPrivate, windowVars, signalVars, protocolVars>>

\* the worker under any sequence of calls of its three slots, with its
\* sampling timer
WorkerCallsNext ==
    \/ call_worker_slot
    \/ WorkerDispatch
    \/ start_sampling
    \/ stop_sampling
    \/ shutdown
    \/ get_data_from_daq

SpecWorkerCalls == Init /\ [][WorkerCallsNext]_vars

\* C39: between the calls of its slots, task_is_running is true exactly when
\* the DAQ is running and the sampling timer is active, and no call of a slot
\* or of the timer callback has raised a device error.
C39_WorkerMirrorsDevice ==
    worker_pc = "idle" =>
        /\ task_is_running = DAQ_device.is_running
        /\ task_is_running = sampling_timer_active
        /\ ~device_error

\* C40: whatever calls of create_tasks, start, stop, close and read were made
\* on the objects, succeeding or raising, an object that is running has
\* tasks.
C40_RunningImpliesTasks ==
    \A h \in Handles : daq[h].is_running => daq[h].are_tasks

C40_Witness ==
    /\ Len(calls) = 2
    /\ calls[1].op = "close" /\ calls[1].before = Running
    /\ calls[2].op = "start" /\ calls[2].h = calls[1].h /\ calls[2].raised
    /\ daq[calls[2].h] = NoTasks

=============================================================================
